---- MODULE Spec2Model ----
(***************************************************************************)
(* A model of fortio/tsync: the versioned concurrent map (smap.Map) and    *)
(* the discovery engine (tsnet.Server) built on two such maps.             *)
(*                                                                         *)
(*   SpecMap     threads calling one smap.Map                              *)
(*   SpecIter    threads iterating over one smap.Map and changing it       *)
(*   Spec        two engines with distinct identities discover each other  *)
(*   SpecExpiry  the same while time passes: the expiry sweep              *)
(*   FairExpiry  SpecExpiry with a sweep that does not stall               *)
(*   SpecSelf    two engines with the same identity: self-collision        *)
(*   SpecRace    SpecSelf with an application that calls Stop              *)
(*   SpecStop    an application calling Stop and ConnectToPeer             *)
(*   SpecCancel  the context passed to Start is cancelled                  *)
(*   FairCancel  SpecCancel with loops that do not stall                   *)
(*   SpecWrap    engines whose epoch counter is about to wrap              *)
(*   SpecForge   a host without identity writes beacons to the group       *)
(***************************************************************************)
EXTENDS Integers, Sequences, FiniteSets, TLC

(***************************************************************************)
(* Bounds of the model.                                                    *)
(***************************************************************************)
\* calls the threads of SpecMap make in all
MaxCalls == 4

Threads == {"t1", "t2"}
Keys    == {"a", "b", "c"}
Vals    == {1, 2}

RECURSIVE SeqsUpTo(_, _)
SeqsUpTo(S, n) ==
    IF n = 0 THEN {<<>>}
    ELSE LET shorter == SeqsUpTo(S, n - 1)
         IN  shorter \cup {Append(q, x) : q \in {r \in shorter : Len(r) = n - 1}, x \in S}

VARIABLES
    \* ---- SpecMap: one smap.Map[string, int] and its callers
    smap,        \* the Map: [m, version]
    calls,       \* how many calls the threads have made
    last,        \* the call made last: [thread, type, n, args, res], args what
                 \* a mutating call was given and res what the call returned
    returned,    \* the versions the mutating calls returned to their callers
    mutations    \* how many mutating calls have completed on the Map

VARIABLES
    \* ---- SpecIter: the RWMutex mu of that Map and the iterations over it
    rlocked,     \* the threads that hold mu for reading
    lockWait,    \* the threads blocked in mu.Lock()
    iter,        \* each thread's iteration: [form, pc, keys, i, how, op, version],
                 \* keys[i] the key to visit next and version the Map's
                 \* version when the keys were read
    visited,     \* what each thread's iteration has yielded to its loop body
    iters        \* how many iterations the threads have started

iterVars == <<rlocked, lockWait, iter, visited, iters>>

VARIABLES
    \* ---- SpecSign, SpecKeys, SpecHash: one call of a tcrypto function
    crypto       \* the inputs of the call, and what it returned

cryptoVars == <<crypto>>

mapVars == <<smap, calls, last, returned, mutations, iterVars, cryptoVars>>

(***************************************************************************)
(* smap.Map[K, V]: the map m and its version, every method one critical    *)
(* section of the RWMutex mu.                                              *)
(***************************************************************************)
\* make(map[K]V)
EmptyMap == [x \in {} |-> 0]

New == [m |-> EmptyMap, version |-> 0]

Version(s) == s.version

\* s.m[key] = value
Store(m, key, value) ==
    [x \in (DOMAIN m) \cup {key} |-> IF x = key THEN value ELSE m[x]]

\* delete(s.m, k)
Remove(m, k) == [x \in (DOMAIN m) \ {k} |-> m[x]]

Set(s, key, value) ==
    [m |-> Store(s.m, key, value), version |-> s.version + 1]

\* a MultiSet in which the first entry of a key wins
RECURSIVE StoreAllFirstWins(_, _)
StoreAllFirstWins(m, kvs) ==
    IF kvs = <<>> THEN m
    ELSE Store(StoreAllFirstWins(m, Tail(kvs)), Head(kvs).Key, Head(kvs).Value)

RECURSIVE StoreAll(_, _)
StoreAll(m, kvs) ==
    IF kvs = <<>> THEN m
    ELSE StoreAll(Store(m, Head(kvs).Key, Head(kvs).Value), Tail(kvs))

MultiSet(s, kvs) ==
    [m |-> StoreAll(s.m, kvs), version |-> s.version + 1]

RECURSIVE RemoveAll(_, _)
RemoveAll(m, ks) ==
    IF ks = <<>> THEN m ELSE RemoveAll(Remove(m, Head(ks)), Tail(ks))

\* a Delete that leaves the version alone when it is given no key
DeleteUnlessEmpty(s, ks) ==
    IF ks = <<>> THEN s ELSE [m |-> RemoveAll(s.m, ks), version |-> s.version + 1]

\* a Delete that bumps the version once for each key it is given
DeleteEach(s, ks) == [m |-> RemoveAll(s.m, ks), version |-> s.version + Len(ks)]

Delete(s, ks) ==
    [m |-> RemoveAll(s.m, ks), version |-> s.version + 1]

Clear(s) == [m |-> EmptyMap, version |-> s.version + 1]

Has(s, key) == key \in DOMAIN s.m

Get(s, key) ==
    IF key \in DOMAIN s.m THEN [value |-> s.m[key], ok |-> TRUE]
    ELSE [value |-> 0, ok |-> FALSE]

MapLen(s) == Cardinality(DOMAIN s.m)

(***************************************************************************)
(* SpecMap: threads calling the methods of one Map.  Each method body is   *)
(* one critical section (mu.Lock .. mu.Unlock, or mu.RLock .. mu.RUnlock), *)
(* so each call is one step.                                               *)
(***************************************************************************)
KV == [Key : Keys, Value : Vals]

\* the argument lists of MultiSet and of the variadic Delete: empty, one
\* element, two (the same key twice included)
KVLists == SeqsUpTo(KV, 2)
KeyLists == SeqsUpTo(Keys, 2)

\* no tcrypto function is being called
NoCall == [stage |-> "none"]

\* a thread that runs no iteration and waits for no lock
NoOp == "none"
NoIter == [form |-> "none", pc |-> "idle", keys |-> <<>>, i |-> 1, how |-> "none",
           op |-> NoOp, version |-> 0]

\* a new Map, no call made, no traversal running
InitData ==
    /\ smap = New
    /\ calls = 0
    /\ last = [thread |-> "none", type |-> "none", n |-> 0, args |-> <<>>, res |-> 0]
    /\ returned = <<>>
    /\ mutations = 0
    /\ rlocked = {}
    /\ lockWait = {}
    /\ iter = [t \in Threads |-> NoIter]
    /\ visited = [t \in Threads |-> <<>>]
    /\ iters = 0

InitMap ==
    /\ InitData
    /\ crypto = NoCall

\* a mutating call given args: s is the Map after it, the caller is handed
\* s's version
Mutate(t, type, args, s) ==
    /\ calls < MaxCalls
    /\ smap' = s
    /\ calls' = calls + 1
    /\ last' = [thread |-> t, type |-> type, n |-> Len(args), args |-> args,
                res |-> Version(s)]
    /\ mutations' = mutations + 1

CallSet(t) ==
    /\ \E k \in Keys, v \in Vals : Mutate(t, "Set", <<[Key |-> k, Value |-> v]>>, Set(smap, k, v))
    /\ returned' = Append(returned, Version(smap'))

CallMultiSet(t) ==
    /\ \E kvs \in KVLists : Mutate(t, "MultiSet", kvs, MultiSet(smap, kvs))
    /\ returned' = Append(returned, Version(smap'))

CallDelete(t) ==
    /\ \E ks \in KeyLists : Mutate(t, "Delete", ks, Delete(smap, ks))
    /\ returned' = Append(returned, Version(smap'))

\* Clear returns nothing
CallClear(t) ==
    /\ Mutate(t, "Clear", <<>>, Clear(smap))
    /\ UNCHANGED returned

\* a read: the caller is handed res
Read(t, type, res) ==
    /\ calls < MaxCalls
    /\ calls' = calls + 1
    /\ last' = [thread |-> t, type |-> type, n |-> 0, args |-> <<>>, res |-> res]
    /\ UNCHANGED <<smap, returned, mutations>>

CallGet(t) == \E k \in Keys : Read(t, "Get", <<k, Get(smap, k)>>)

CallHas(t) == \E k \in Keys : Read(t, "Has", <<k, Has(smap, k)>>)

CallLen(t) == Read(t, "Len", MapLen(smap))

CallVersion(t) == Read(t, "Version", Version(smap))

\* for k, v := range m.All(): the whole traversal runs under the read lock
CallAll(t) == Read(t, "All", smap.m)

(***************************************************************************)
(* SpecIter: the six iteration forms of the Map, element by element, with  *)
(* the RWMutex mu.  A mutating method is mu.Lock(), the change, and        *)
(* mu.Unlock(): the thread first waits for the lock, then the critical     *)
(* section is one step.  A waiting writer keeps new readers out, as Go's   *)
(* sync.RWMutex does.                                                      *)
(***************************************************************************)
\* iterations the threads start in all
MaxIters == 1

\* mutating calls the threads of SpecIter make in all, after the one that
\* filled the Map
MaxWrites == 2

\* the threads that iterate; every thread calls the mutating methods
Iterators == {"t1"}

LockedForms == {"All", "Keys", "Values"}
SortedForms == {"KeysSorted", "AllSorted", "NaturalSort"}

\* the order of the keys: cmp.Ordered on strings
KeyRank == [k \in Keys |-> IF k = "a" THEN 1 ELSE IF k = "b" THEN 2 ELSE 3]

\* the less functions a caller hands to KeysSorted and AllSorted
Ascending(a, b) == KeyRank[a] < KeyRank[b]
Descending(a, b) == KeyRank[b] < KeyRank[a]

\* the orders in which `range s.m` can visit the keys in S: any
Orders(S) ==
    {q \in SeqsUpTo(S, Cardinality(S)) :
        Len(q) = Cardinality(S) /\ \A i, j \in 1..Len(q) : i # j => q[i] # q[j]}

\* a sort that leaves two keys out of order
Unsorted(S) == CHOOSE q \in Orders(S) :
    Cardinality(S) < 2 \/ \E i, j \in 1..Len(q) : i < j /\ ~Ascending(q[i], q[j])

\* sort.Slice(keys, less) / slices.Sort(keys) of the snapshot S
SortedAscending(S) == CHOOSE q \in Orders(S) :
    \A i, j \in 1..Len(q) : i < j => Ascending(q[i], q[j])

SortedDescending(S) == CHOOSE q \in Orders(S) :
    \A i, j \in 1..Len(q) : i < j => Descending(q[i], q[j])

\* mu.RLock() returns at once: no writer holds mu or waits for it
CanRLock == lockWait = {}

\* a Lock that does not wait for the caller's own read lock
CanLockBut(t) == rlocked \subseteq {t}

\* mu.Lock() returns: no reader holds mu (a writer holds it for one step only)
CanLock(t) == rlocked = {}

\* a deferred unlock that is skipped
RUnlockSkipped(held, t) == held

\* mu.RUnlock()
RUnlock(held, t) == held \ {t}

\* a presence check that is never made
FoundAlways(s, k) == TRUE

\* v, ok := s.m[k]: ok
Found(s, k) == Has(s, k)

\* the value yielded with key k: none (0) in the forms that yield keys only
Yielded(form, s, k) ==
    [Key |-> k,
     Value |-> IF form \in {"Keys", "KeysSorted"} \/ ~Has(s, k) THEN 0 ELSE s.m[k]]

\* a thread enters `for ... := range s.<form>(...)`.  All, Keys and Values
\* take the read lock for the traversal; the sorted forms copy the keys under
\* the read lock, release it and sort the copy
IterStart(t) ==
    /\ t \in Iterators
    /\ iter[t].pc = "idle"
    /\ iters < MaxIters
    /\ CanRLock
    /\ iters' = iters + 1
    /\ visited' = [visited EXCEPT ![t] = <<>>]
    /\ \E form \in LockedForms \cup SortedForms :
        IF form \in LockedForms
        THEN /\ \E order \in Orders(DOMAIN smap.m) :
                   iter' = [iter EXCEPT ![t] = [form |-> form, pc |-> "next",
                                                keys |-> order, i |-> 1, how |-> "run",
                                                op |-> NoOp, version |-> Version(smap)]]
             /\ rlocked' = rlocked \cup {t}
        ELSE /\ \E order \in IF form = "NaturalSort"
                            THEN {SortedAscending(DOMAIN smap.m)}
                            ELSE {SortedAscending(DOMAIN smap.m),
                                  SortedDescending(DOMAIN smap.m)} :
                   iter' = [iter EXCEPT ![t] = [form |-> form, pc |-> "next",
                                                keys |-> order, i |-> 1, how |-> "run",
                                                op |-> NoOp, version |-> Version(smap)]]
             /\ rlocked' = RUnlock(rlocked \cup {t}, t)
    /\ UNCHANGED <<smap, calls, last, returned, mutations, lockWait>>

\* the iterator function returns: the deferred RUnlock of All, Keys and Values
IterReturn(t, how) ==
    /\ iter' = [iter EXCEPT ![t].pc = "idle", ![t].how = how, ![t].keys = <<>>, ![t].i = 1]
    /\ rlocked' = IF iter[t].form \in LockedForms THEN RUnlock(rlocked, t) ELSE rlocked

\* yield(...) is called with key k: the loop body runs
IterYield(t, k) ==
    /\ visited' = [visited EXCEPT ![t] = Append(@, Yielded(iter[t].form, smap, k))]
    /\ iter' = [iter EXCEPT ![t].pc = "body", ![t].i = @ + 1]
    /\ UNCHANGED rlocked

\* the iterator goes to its next key: the end of the keys, a yield, or, in
\* AllSorted and NaturalSort, a key that is gone and skipped
IterNext(t) ==
    /\ iter[t].pc = "next"
    /\ IF iter[t].i > Len(iter[t].keys)
       THEN /\ IterReturn(t, "end")
            /\ UNCHANGED visited
       ELSE IF iter[t].form \in {"AllSorted", "NaturalSort"}
       THEN /\ CanRLock
            /\ IF Found(smap, iter[t].keys[iter[t].i])
               THEN IterYield(t, iter[t].keys[iter[t].i])
               ELSE /\ iter' = [iter EXCEPT ![t].i = @ + 1]
                    /\ UNCHANGED <<visited, rlocked>>
       ELSE IterYield(t, iter[t].keys[iter[t].i])
    /\ UNCHANGED <<smap, calls, last, returned, mutations, lockWait, iters>>

\* the loop body ends: yield returns true
IterContinue(t) ==
    /\ iter[t].pc = "body"
    /\ iter' = [iter EXCEPT ![t].pc = "next"]
    /\ UNCHANGED <<smap, calls, last, returned, mutations, rlocked, lockWait, visited,
                   iters>>

\* the loop body breaks: yield returns false and the iterator returns
IterBreak(t) ==
    /\ iter[t].pc = "body"
    /\ IterReturn(t, "break")
    /\ UNCHANGED <<smap, calls, last, returned, mutations, lockWait, visited, iters>>

\* the mutating calls a thread of SpecIter can make: the values it stores are
\* not the one the Map was filled with
Ops ==
    {[type |-> "Set", kvs |-> <<kv>>, ks |-> <<>>] : kv \in [Key : Keys, Value : {2}]}
    \cup {[type |-> "MultiSet", kvs |-> kvs, ks |-> <<>>] :
              kvs \in SeqsUpTo([Key : Keys, Value : {2}], 2)}
    \cup {[type |-> "Delete", kvs |-> <<>>, ks |-> ks] : ks \in KeyLists}
    \cup {[type |-> "Clear", kvs |-> <<>>, ks |-> <<>>]}

\* the Map after the critical section of op
Apply(op, s) ==
    CASE op.type = "Set" -> Set(s, op.kvs[1].Key, op.kvs[1].Value)
      [] op.type = "MultiSet" -> MultiSet(s, op.kvs)
      [] op.type = "Delete" -> Delete(s, op.ks)
      [] op.type = "Clear" -> Clear(s)

\* a thread, in a loop body or outside any loop, calls a mutating method and
\* reaches mu.Lock(); nothing reads the arguments of the call before its
\* critical section does
WriteCall(t) ==
    /\ iter[t].pc \in {"idle", "body"}
    /\ calls + Cardinality(lockWait) < 1 + MaxWrites
    /\ \E type \in {"Set", "MultiSet", "Delete", "Clear"} :
           iter' = [iter EXCEPT ![t].pc = "lock", ![t].op = type]
    /\ lockWait' = lockWait \cup {t}
    /\ UNCHANGED <<smap, calls, last, returned, mutations, rlocked, visited, iters>>

\* mu.Lock() returns, the method changes the Map, unlocks and returns
WriteDo(t) ==
    /\ iter[t].pc = "lock"
    /\ CanLock(t)
    /\ \E op \in {o \in Ops : o.type = iter[t].op} :
           Mutate(t, op.type, op.kvs \o op.ks, Apply(op, smap))
    /\ returned' = IF iter[t].op = "Clear" THEN returned
                   ELSE Append(returned, Version(smap'))
    /\ lockWait' = lockWait \ {t}
    /\ iter' = [iter EXCEPT ![t].pc = IF iter[t].how = "run" THEN "body" ELSE "idle",
                            ![t].op = NoOp]
    /\ UNCHANGED <<rlocked, visited, iters>>

(***************************************************************************)
(* The Peers registry of one engine under its lock: the multicast receiver *)
(* stores a beacon and calls OnChange, whose callback calls the registry   *)
(* again, while another goroutine (the advertiser's sweep, the             *)
(* application) traverses and changes the same Map.                        *)
(***************************************************************************)
\* the goroutine of runMulticastReceive
Receiver == "t2"

\* the registry operations an OnChange callback makes
CallbackOps == {"Get", "Len", "Version", "AllSorted", "Set", "Delete"}
CallbackWrites == {"Set", "Delete"}

\* a receiver that calls s.change from inside a traversal of the registry,
\* holding its read lock
LocksAtChangeOwn(t) == {t}

\* the locks of the registry the receiver holds when Set has returned and it
\* calls s.change: none, Set unlocks before it returns
LocksAtChange(t) == {}

\* the receiver handles a beacon: s.Peers.Set(peer, data) reaches mu.Lock()
RecvSet(t) ==
    /\ t = Receiver
    /\ iter[t] = NoIter
    /\ iter' = [iter EXCEPT ![t].form = "receive", ![t].pc = "lock", ![t].op = "Set"]
    /\ lockWait' = lockWait \cup {t}
    /\ UNCHANGED <<smap, calls, last, returned, mutations, rlocked, visited, iters>>

\* mu.Lock() returns, Set stores the entry, bumps the version, unlocks and
\* returns the new version
RecvSetDone(t) ==
    /\ t = Receiver
    /\ iter[t].form = "receive"
    /\ iter[t].pc = "lock"
    /\ CanLock(t)
    /\ \E k \in Keys : smap' = Set(smap, k, 2)
    /\ lockWait' = lockWait \ {t}
    /\ rlocked' = rlocked \cup LocksAtChange(t)
    /\ iter' = [iter EXCEPT ![t].pc = "change", ![t].op = NoOp,
                            ![t].version = Version(smap')]
    /\ UNCHANGED <<calls, last, returned, mutations, visited, iters>>

\* s.change(nv): OnChange runs and calls an operation of the registry, which
\* reaches mu.RLock() or mu.Lock()
OnChangeCall(t) ==
    /\ t = Receiver
    /\ iter[t].pc = "change"
    /\ \E op \in CallbackOps :
        /\ iter' = [iter EXCEPT ![t].form = "OnChange", ![t].pc = "callback", ![t].op = op]
        /\ lockWait' = IF op \in CallbackWrites THEN lockWait \cup {t} ELSE lockWait
    /\ UNCHANGED <<smap, calls, last, returned, mutations, rlocked, visited, iters>>

\* the lock is granted and the operation runs its critical section: Get, Len
\* and Version read, Set and Delete change the Map, AllSorted copies the keys
CallbackStep(t) ==
    /\ t = Receiver
    /\ iter[t].pc = "callback"
    /\ IF iter[t].op \in CallbackWrites
       THEN /\ CanLock(t)
            /\ \E k \in Keys :
                  smap' = IF iter[t].op = "Set" THEN Set(smap, k, 2) ELSE Delete(smap, <<k>>)
            /\ lockWait' = lockWait \ {t}
            /\ iter' = [iter EXCEPT ![t].pc = "idle"]
       ELSE /\ CanRLock
            /\ iter' = IF iter[t].op = "AllSorted"
                       THEN [iter EXCEPT ![t].pc = "lookup", ![t].i = 1,
                                         ![t].keys = SortedAscending(DOMAIN smap.m)]
                       ELSE [iter EXCEPT ![t].pc = "idle"]
            /\ UNCHANGED <<smap, lockWait>>
    /\ UNCHANGED <<calls, last, returned, mutations, rlocked, visited, iters>>

\* AllSorted in the callback looks up its next key under the read lock, or
\* returns at the end of its keys
CallbackLookup(t) ==
    /\ t = Receiver
    /\ iter[t].pc = "lookup"
    /\ IF iter[t].i > Len(iter[t].keys)
       THEN iter' = [iter EXCEPT ![t].pc = "idle", ![t].keys = <<>>, ![t].i = 1]
       ELSE /\ CanRLock
            /\ iter' = [iter EXCEPT ![t].i = @ + 1]
    /\ UNCHANGED <<smap, calls, last, returned, mutations, rlocked, lockWait, visited,
                   iters>>

\* the other goroutine starts a traversal: PeersCleanup ranges over All, the
\* application's table over AllSorted
TraversalStart(t) ==
    /\ IterStart(t)
    /\ iter'[t].form \in {"All", "AllSorted"}

\* the other goroutine calls Delete outside any loop, as PeersCleanup does
\* after its traversal
DeleteAfterLoop(t) ==
    /\ t \in Iterators
    /\ iter[t].pc = "idle"
    /\ WriteCall(t)
    /\ iter'[t].op = "Delete"

(***************************************************************************)
(* tsnet: two engines (Server) on one multicast group.                     *)
(***************************************************************************)
\* ticks of the advertiser each engine makes (the epoch it reaches)
MaxEpoch == 2
\* how far the clock advances
MaxTime == 2
\* calls of Stop and of ConnectToPeer the applications make in all
MaxStops == 2
MaxConnects == 1

\* Config.PeerTimeout, in clock units
PeerTimeout == 1

epochStopMarker == -999

MaxInt32 == 2147483647
MinInt32 == -MaxInt32 - 1

Nodes == {"n1", "n2"}

\* the engines whose application calls Stop and ConnectToPeer; the application
\* of the others only starts them
Apps == {"n1"}

\* the goroutines that call Stop on an engine: an outside caller, and the
\* engine's own multicast receiver (self-collision)
Callers == {"ext", "mr"}

\* ---------------------------------------------------------------------------
\* tcrypto: encodings, identities, signed messages
\* ---------------------------------------------------------------------------

\* A string is a sequence of characters.  The 64 characters of the URL-safe
\* base64 alphabet are written as their 6-bit values 0..63 ('A'..'Z' are
\* 0..25, 'a'..'z' 26..51, '0'..'9' 52..61, '-' 62, '_' 63); the characters
\* outside the alphabet follow.  A byte is 0..255, a []byte a sequence of bytes.
AlphabetSize == 64
Slash == 64
Dot == 65
Newline == 66
Colon == 67
Chars == 0..Colon

\* 's', 'k' and 'p' in the alphabet
CharS == 44
CharK == 36
CharP == 41

SignedPrefix == <<CharS, Dot>>
PrivateKeyPrefix == <<CharK, Dot>>
PublicKeyPrefix == <<CharP, Dot>>

\* base64.RawURLEncoding.EncodeToString: 3 bytes make 4 characters, the last 1
\* or 2 bytes make 2 or 3 characters whose unused low bits are 0, no padding
RECURSIVE EncodeToString(_)
EncodeToString(b) ==
    IF Len(b) = 0 THEN <<>>
    ELSE IF Len(b) = 1 THEN <<b[1] \div 4, (b[1] % 4) * 16>>
    ELSE IF Len(b) = 2
    THEN <<b[1] \div 4, (b[1] % 4) * 16 + b[2] \div 16, (b[2] % 16) * 4>>
    ELSE <<b[1] \div 4, (b[1] % 4) * 16 + b[2] \div 16,
           (b[2] % 16) * 4 + b[3] \div 64, b[3] % 64>>
         \o EncodeToString(SubSeq(b, 4, Len(b)))

\* the bytes of a string of alphabet characters whose length is not 1 modulo 4:
\* the low bits of a last short quantum are dropped without a look at them
RECURSIVE decodeQuantum(_)
decodeQuantum(s) ==
    IF Len(s) < 2 THEN <<>>
    ELSE IF Len(s) = 2 THEN <<s[1] * 4 + s[2] \div 16>>
    ELSE IF Len(s) = 3
    THEN <<s[1] * 4 + s[2] \div 16, (s[2] % 16) * 16 + s[3] \div 4>>
    ELSE <<s[1] * 4 + s[2] \div 16, (s[2] % 16) * 16 + s[3] \div 4,
           (s[3] % 4) * 64 + s[4]>>
         \o decodeQuantum(SubSeq(s, 5, Len(s)))

\* newlines are skipped wherever they are
NotNewline(c) == c # Newline

\* the input of the decoder without its newlines
SkipNewlines(s) == SelectSeq(s, NotNewline)

DecodeFailed == [err |-> TRUE, bytes |-> <<>>]

\* base64.RawURLEncoding.DecodeString (not Strict)
DecodeString(s) ==
    LET t == SkipNewlines(s)
    IN  IF \E i \in 1..Len(t) : t[i] >= AlphabetSize THEN DecodeFailed
        ELSE IF Len(t) % 4 = 1 THEN DecodeFailed
        ELSE [err |-> FALSE, bytes |-> decodeQuantum(t)]

\* tcrypto.EncodeBytes
EncodeBytes(prefix, b) == prefix \o EncodeToString(b)

\* a DecodeBytes that does not look at the tag
DecodeBytesAnyTag(prefix, s) ==
    IF Len(s) < Len(prefix) THEN DecodeFailed
    ELSE DecodeString(SubSeq(s, Len(prefix) + 1, Len(s)))

\* tcrypto.DecodeBytes
DecodeBytes(prefix, s) ==
    IF Len(s) < Len(prefix) \/ SubSeq(s, 1, Len(prefix)) # prefix THEN DecodeFailed
    ELSE DecodeString(SubSeq(s, Len(prefix) + 1, Len(s)))

\* The identities: ed25519 keys, at the scale of the model.  A private key of
\* 64 bytes is 1 byte here and a public key of 32 bytes is 2 bytes, which
\* leaves the lengths as they are modulo 3.
Alice == [PrivateKey |-> <<1>>, PublicKey |-> <<10, 200>>]
Bob == [PrivateKey |-> <<2>>, PublicKey |-> <<10, 201>>]
Identities == {Alice, Bob}

\* the messages that get signed
MessageBytes == {0, 255}
MaxMessage == 2
Messages == SeqsUpTo(MessageBytes, MaxMessage)

\* the number of a message among the messages
RECURSIVE MessageNumber(_)
MessageNumber(m) ==
    IF Len(m) = 0 THEN 0
    ELSE 1 + (IF m[Len(m)] = 0 THEN 0 ELSE 1) + 2 * MessageNumber(SubSeq(m, 1, Len(m) - 1))

\* ed25519.Sign: the signature is a function of the key and of the message,
\* different for different keys and for different messages; a signature of 64
\* bytes is 1 byte here
Sign(priv, m) == <<priv[1] * 64 + MessageNumber(m)>>

\* an ed25519.Verify that takes a signature of any identity
VerifyAnyKey(pub, m, sig) ==
    \E id \in Identities : m \in Messages /\ sig = Sign(id.PrivateKey, m)

\* ed25519.Verify: only the private key of pub makes a signature that passes,
\* and only for the message it was made for
Verify(pub, m, sig) ==
    \E id \in Identities :
        id.PublicKey = pub /\ m \in Messages /\ sig = Sign(id.PrivateKey, m)

\* Identity.SignMessage
SignMessage(id, message) ==
    EncodeBytes(SignedPrefix, message) \o <<Slash>>
        \o EncodeBytes(<<>>, Sign(id.PrivateKey, message))

\* strings.SplitN(s, "/", 2)
SplitN2(s) ==
    IF \E i \in 1..Len(s) : s[i] = Slash
    THEN LET i == CHOOSE i \in 1..Len(s) :
                     s[i] = Slash /\ \A j \in 1..(i - 1) : s[j] # Slash
         IN  <<SubSeq(s, 1, i - 1), SubSeq(s, i + 1, Len(s))>>
    ELSE <<s>>

SignatureInvalid == [err |-> "SignatureInvalidError", message |-> <<>>]

\* tcrypto.VerifySignedMessage
VerifySignedMessage(signedMessage, pubKey) ==
    LET parts == SplitN2(signedMessage)
    IN  IF Len(parts) # 2 THEN SignatureInvalid
        ELSE LET message == DecodeBytes(SignedPrefix, parts[1])
                 signature == DecodeBytes(<<>>, parts[2])
             IN  IF message.err THEN SignatureInvalid
                 ELSE IF signature.err THEN SignatureInvalid
                 ELSE IF ~Verify(pubKey, message.bytes, signature.bytes)
                 THEN SignatureInvalid
                 ELSE [err |-> "nil", message |-> message.bytes]

\* the key pairs of the key agreement (X25519), at the same scale
Carol == [PrivateKey |-> <<3>>, PublicKey |-> <<20, 100>>]
Dave == [PrivateKey |-> <<4>>, PublicKey |-> <<20, 101>>]
Ephemerals == {Carol, Dave}

\* ed25519.PrivateKey.Public: the public half of the private key
Public(priv) ==
    IF \E id \in Identities : id.PrivateKey = priv
    THEN (CHOOSE id \in Identities : id.PrivateKey = priv).PublicKey
    ELSE <<>>

\* tcrypto.IdentityFromPrivateKey
IdentityFromPrivateKey(privKeyStr) ==
    LET d == DecodeBytes(PrivateKeyPrefix, privKeyStr)
    IN  IF d.err THEN [err |-> TRUE, PrivateKey |-> <<>>, PublicKey |-> <<>>]
        ELSE [err |-> FALSE, PrivateKey |-> d.bytes, PublicKey |-> Public(d.bytes)]

\* tcrypto.StringToPublicKey: NewPublicKey takes a key of the curve's size only
StringToPublicKey(str) ==
    LET d == DecodeBytes(PublicKeyPrefix, str)
    IN  IF d.err THEN DecodeFailed
        ELSE IF Len(d.bytes) # Len(Carol.PublicKey) THEN DecodeFailed
        ELSE d

\* sha256.Size: the bytes of a digest
DigestSize == 32

\* '0' and '-' in the alphabet
Digit0 == 52
Hyphen == 62

\* the byte values that are not rejected, 10 * 25 of them
Unbiased == 250

\* the loop of HumanHash over the digest: i digits are in result, j bytes of
\* hashed have been read; hashed[j] past the last byte panics
RECURSIVE HumanDigits(_, _, _)
HumanDigits(hashed, result, j) ==
    IF Len(result) >= 7
    THEN [panic |-> FALSE,
          str |-> <<result[1], result[2], result[3], Hyphen,
                    result[5], result[6], result[7], result[4]>>]
    ELSE IF j >= Len(hashed) THEN [panic |-> TRUE, str |-> <<>>]
    ELSE IF hashed[j + 1] >= Unbiased THEN HumanDigits(hashed, result, j + 1)
    ELSE HumanDigits(hashed, Append(result, Digit0 + (hashed[j + 1] % 10)), j + 1)

\* Identity.PrivateKeyToString
PrivateKeyToString(id) == EncodeBytes(PrivateKeyPrefix, id.PrivateKey)

\* Identity.PublicKeyToString
PublicKeyToString(id) == EncodeBytes(PublicKeyPrefix, id.PublicKey)

\* what the hosts are configured with: Config.Name, the IP of the host's
\* interface, and Identity.PublicKeyToString()
HostA == [IP |-> "10.0.0.1", Name |-> "A", PublicKey |-> PublicKeyToString(Alice)]
HostB == [IP |-> "10.0.0.2", Name |-> "B", PublicKey |-> PublicKeyToString(Bob)]

\* the port the OS gives each engine's dualUDPSock (ListenUDP with port 0)
SendPort == [n \in Nodes |-> IF n = "n1" THEN 5001 ELSE 5002]

\* net.ListenUDP("udp4", nil) binds the unspecified address
UnspecifiedIP == "0.0.0.0"

NoAddr == [IP |-> "nil", Port |-> 0]

VARIABLES
    \* ---- Spec: the engines
    cfg,          \* cfg[n]: the engine's Config and host: [IP, Name, PublicKey]
    route,        \* route[n]: whether GetInternetInterface finds the host's interface
    ourSendAddr,  \* Server.ourSendAddr: [IP, Port], NoAddr before Start
    epoch,        \* Server.epoch (atomic.Int32)
    cancel,       \* Server.cancel: "nil" or "set"
    ctxDone,      \* whether the context the loops select on is cancelled
    sockets,      \* [mcast, dual]: "none", "open" or "closed"
    wg,           \* Server.wg: loops that have not called Done
    Peers,        \* Server.Peers: smap.Map[Peer, PeerData]
    connections,  \* Server.connections: smap.Map[Peer, Connection]
    advPC,        \* where runAdv is
    toDelete,     \* PeersCleanup's locals while it runs: [keys, at], at its time.Now()
    mrPC,         \* where runMulticastReceive is
    urPC,         \* where runUnicastReceive is
    stopPC,       \* stopPC[n][c]: where caller c's call of Stop is
    lastStop,     \* lastStop[n][c]: how c's last call of Stop returned
    stopCalls,    \* calls of Stop the outside callers have made in all
    connPC,       \* the caller of ConnectToPeer: [pc, peer, port, at, conn]
    connCalls,    \* calls of ConnectToPeer made in all
    lastConnect,  \* what the last ConnectToPeer returned
    transports,   \* the UDP conns ConnectToPeer dialed: sequence of [owner, peer, state]
    net,          \* multicast datagrams in flight
    unet,         \* unicast datagrams in flight
    now,          \* the clock
    onChange,     \* onChange[n]: how often OnChange was called, and the version passed last
    direct,       \* what handleDirectMessage logged last
    crashed       \* the process panicked

engineVars == <<cfg, route, ourSendAddr, epoch, cancel, ctxDone, sockets, wg, Peers,
                connections, advPC, toDelete, mrPC, urPC, stopPC, lastStop,
                stopCalls, connPC, connCalls, lastConnect, transports, net, unet,
                now, onChange, direct, crashed>>

vars == <<mapVars, engineVars>>

\* ---- helpers over the engine's state

\* a Stopped that only knows the marker itself
StoppedAtMarker(n) == epoch[n] = epochStopMarker

\* Server.Stopped
Stopped(n) == epoch[n] < 0

\* a counter that starts again from 0 after its maximum
Add1Restarting(x) == IF x = MaxInt32 THEN 0 ELSE x + 1

\* atomic.Int32.Add(1): two's complement
Add1(x) == IF x = MaxInt32 THEN MinInt32 ELSE x + 1

Started(n) == ourSendAddr[n] # NoAddr

\* us := Peer{Name: s.Name, IP: ourAddr.IP.String(), PublicKey: ...}
Us(n) == [IP |-> ourSendAddr[n].IP, Name |-> cfg[n].Name, PublicKey |-> cfg[n].PublicKey]

\* fmt.Sprintf(DiscoveryMessageFormat, name, idStr, epoch)
DiscoveryMessage(name, idStr, e) == <<"tsync1", name, idStr, "e", e>>

\* a connect request with its two names in the wrong order
ConnectMessageSwapped(requester, target) == <<"connect1", target, requester>>

\* fmt.Sprintf(ConnectMessageFormat, requester, target)
ConnectMessage(requester, target) == <<"connect1", requester, target>>

\* a decoding that is content with the fields Sscanf got before it failed
MCastMessageDecodeLax(buf) ==
    IF /\ Len(buf) >= 3
       /\ buf[1] = "tsync1"
    THEN [err |-> FALSE, name |-> buf[2], pubKey |-> buf[3],
          epoch |-> IF Len(buf) = 5 THEN buf[5] ELSE 0]
    ELSE [err |-> TRUE, name |-> "", pubKey |-> <<>>, epoch |-> 0]

\* Server.MCastMessageDecode: Sscanf of the discovery format
MCastMessageDecode(buf) ==
    IF /\ Len(buf) = 5
       /\ buf[1] = "tsync1"
       /\ buf[4] = "e"
       /\ buf[5] \in MinInt32..MaxInt32
    THEN [err |-> FALSE, name |-> buf[2], pubKey |-> buf[3], epoch |-> buf[5]]
    ELSE [err |-> TRUE, name |-> "", pubKey |-> <<>>, epoch |-> 0]

\* tcrypto.IdentityPublicKeyString: the key string must carry the public-key tag
IdentityPublicKeyString(str) ==
    [err |-> DecodeBytes(PublicKeyPrefix, str).err,
     pub |-> DecodeBytes(PublicKeyPrefix, str).bytes]

\* tcrypto.HumanHash of the decoded key: a function of the key
HumanHash(pub) == <<"hash", pub>>

NoConn == 0

\* var toDelete []Peer
NoDelete == [keys |-> {}, at |-> 0]

InitEngine ==
    /\ cfg \in {[n \in Nodes |-> IF n = "n1" THEN HostA ELSE h] : h \in {HostA, HostB}}
    /\ route \in [Nodes -> BOOLEAN]
    /\ ourSendAddr = [n \in Nodes |-> NoAddr]
    /\ epoch = [n \in Nodes |-> 0]
    /\ cancel = [n \in Nodes |-> "nil"]
    /\ ctxDone = [n \in Nodes |-> FALSE]
    /\ sockets = [n \in Nodes |-> [mcast |-> "none", dual |-> "none"]]
    /\ wg = [n \in Nodes |-> 0]
    /\ Peers = [n \in Nodes |-> New]
    /\ connections = [n \in Nodes |-> New]
    /\ advPC = [n \in Nodes |-> "idle"]
    /\ toDelete = [n \in Nodes |-> NoDelete]
    /\ mrPC = [n \in Nodes |-> "idle"]
    /\ urPC = [n \in Nodes |-> "idle"]
    /\ stopPC = [n \in Nodes |-> [c \in Callers |-> "idle"]]
    /\ lastStop = [n \in Nodes |-> [c \in Callers |-> "none"]]
    /\ stopCalls = 0
    /\ connPC = [n \in Nodes |-> [pc |-> "idle", peer |-> HostA, port |-> 0, at |-> 0, conn |-> NoConn]]
    /\ connCalls = 0
    /\ lastConnect = [n \in Nodes |-> "none"]
    /\ transports = <<>>
    /\ net = {}
    /\ unet = {}
    /\ now = 0
    /\ onChange = [n \in Nodes |-> [calls |-> 0, version |-> 0]]
    /\ direct = [n \in Nodes |-> "none"]
    /\ crashed = [n \in Nodes |-> FALSE]

(***************************************************************************)
(* Server.Start                                                            *)
(***************************************************************************)
\* when GetInternetInterface fails localIP is nil, the engine listens on all
\* interfaces and dualUDPSock.LocalAddr() is the unspecified address; the
\* application calls Start from the goroutine it calls Stop from
Start(n) ==
    /\ ~Started(n)
    /\ ~crashed[n]
    /\ stopPC[n]["ext"] = "idle"
    /\ ourSendAddr' = [ourSendAddr EXCEPT ![n] =
            [IP |-> IF route[n] THEN cfg[n].IP ELSE UnspecifiedIP, Port |-> SendPort[n]]]
    /\ sockets' = [sockets EXCEPT ![n] = [mcast |-> "open", dual |-> "open"]]
    /\ cancel' = [cancel EXCEPT ![n] = "set"]
    /\ wg' = [wg EXCEPT ![n] = 3]
    /\ advPC' = [advPC EXCEPT ![n] = "select"]
    /\ mrPC' = [mrPC EXCEPT ![n] = "read"]
    /\ urPC' = [urPC EXCEPT ![n] = "read"]
    /\ UNCHANGED mapVars
    /\ UNCHANGED <<cfg, route, epoch, ctxDone, Peers, connections, toDelete, stopPC, lastStop,
                   stopCalls, connPC, connCalls, lastConnect, transports, net, unet,
                   now, onChange, direct, crashed>>

\* the context passed to Start is cancelled by its owner
CancelCtx(n) ==
    /\ Started(n)
    /\ ~crashed[n]
    /\ ~ctxDone[n]
    /\ ctxDone' = [ctxDone EXCEPT ![n] = TRUE]
    /\ UNCHANGED mapVars
    /\ UNCHANGED <<cfg, route, ourSendAddr, epoch, cancel, sockets, wg, Peers, connections,
                   advPC, toDelete, mrPC, urPC, stopPC, lastStop, stopCalls,
                   connPC, connCalls, lastConnect, transports, net, unet, now, onChange,
                   direct, crashed>>

\* time passes
Tick ==
    /\ now < MaxTime
    /\ now' = now + 1
    /\ UNCHANGED mapVars
    /\ UNCHANGED <<cfg, route, ourSendAddr, epoch, cancel, ctxDone, sockets, wg, Peers,
                   connections, advPC, toDelete, mrPC, urPC, stopPC, lastStop,
                   stopCalls, connPC, connCalls, lastConnect, transports, net, unet,
                   onChange, direct, crashed>>

(***************************************************************************)
(* Server.runAdv                                                           *)
(***************************************************************************)
\* the datagrams one multicast write puts in flight: one per listening socket
\* of the group, the sender's own included (multicast loopback)
BeaconsOfLastEpoch(n, e) ==
    {[dst |-> m, srcIP |-> cfg[n].IP, srcPort |-> SendPort[n],
      buf |-> DiscoveryMessage(cfg[n].Name, cfg[n].PublicKey, e - 1)] :
        m \in {x \in Nodes : sockets[x].mcast = "open"}}

Beacons(n, e) ==
    {[dst |-> m, srcIP |-> cfg[n].IP, srcPort |-> SendPort[n],
      buf |-> DiscoveryMessage(cfg[n].Name, cfg[n].PublicKey, e)] :
        m \in {x \in Nodes : sockets[x].mcast = "open"}}

\* Server.MessageSend: the write fails on a closed socket, and may fail otherwise
MessageSend(n, e, ok) ==
    net' = IF ok /\ sockets[n].dual = "open" THEN net \cup Beacons(n, e) ELSE net

\* case <-ticker.C: s.epoch.Add(1), the two checks of the new epoch, and
\* err := s.MessageSend(epoch), whose error is only logged
AdvTick(n) ==
    /\ advPC[n] = "select"
    /\ ~crashed[n]
    /\ epoch[n] < MaxEpoch \/ epoch[n] >= MaxInt32 - MaxEpoch
    /\ LET newEpoch == Add1(epoch[n]) IN
        /\ epoch' = [epoch EXCEPT ![n] = newEpoch]
        /\ IF newEpoch < epochStopMarker
           THEN /\ crashed' = [crashed EXCEPT ![n] = TRUE]
                /\ UNCHANGED <<advPC, wg, net>>
           ELSE IF newEpoch < 0
           THEN /\ advPC' = [advPC EXCEPT ![n] = "exited"]
                /\ wg' = [wg EXCEPT ![n] = @ - 1]
                /\ UNCHANGED <<crashed, net>>
           ELSE /\ advPC' = [advPC EXCEPT ![n] = "cleanup"]
                /\ \E ok \in BOOLEAN : MessageSend(n, newEpoch, ok)
                /\ UNCHANGED <<wg, crashed>>
    /\ UNCHANGED mapVars
    /\ UNCHANGED <<cfg, route, ourSendAddr, cancel, ctxDone, sockets, Peers, connections,
                   toDelete, mrPC, urPC, stopPC, lastStop, stopCalls, connPC, connCalls,
                   lastConnect, transports, unet, now, onChange, direct>>

\* case <-ctx.Done()
AdvExit(n) ==
    /\ advPC[n] = "select"
    /\ ~crashed[n]
    /\ ctxDone[n]
    /\ advPC' = [advPC EXCEPT ![n] = "exited"]
    /\ wg' = [wg EXCEPT ![n] = @ - 1]
    /\ UNCHANGED mapVars
    /\ UNCHANGED <<cfg, route, ourSendAddr, epoch, cancel, ctxDone, sockets, Peers, connections,
                   toDelete, mrPC, urPC, stopPC, lastStop, stopCalls, connPC,
                   connCalls, lastConnect, transports, net, unet, now, onChange,
                   direct, crashed>>

\* the keys of a slice in some order (Go's map iteration order is unspecified;
\* Delete's result does not depend on it)
RECURSIVE SetToSeq(_)
SetToSeq(S) ==
    IF S = {} THEN <<>>
    ELSE LET x == CHOOSE y \in S : TRUE IN <<x>> \o SetToSeq(S \ {x})

\* a scan that lets an entry live one clock unit longer
ExpiredLate(s, t) == {p \in DOMAIN s.m : t - s.m[p].LastSeen > PeerTimeout + 1}

\* the scan of PeersCleanup: now.Sub(data.LastSeen) > s.PeerTimeout
Expired(s, t) == {p \in DOMAIN s.m : t - s.m[p].LastSeen > PeerTimeout}

\* PeersCleanup, the traversal of s.Peers.All() under the read lock
AdvScan(n) ==
    /\ advPC[n] = "cleanup"
    /\ ~crashed[n]
    /\ toDelete' = [toDelete EXCEPT ![n] =
                    IF Expired(Peers[n], now) # {}
                    THEN [keys |-> Expired(Peers[n], now), at |-> now]
                    ELSE NoDelete]
    /\ advPC' = [advPC EXCEPT ![n] =
                    IF Expired(Peers[n], now) # {} THEN "delete" ELSE "select"]
    /\ UNCHANGED mapVars
    /\ UNCHANGED <<cfg, route, ourSendAddr, epoch, cancel, ctxDone, sockets, wg, Peers,
                   connections, mrPC, urPC, stopPC, lastStop, stopCalls,
                   connPC, connCalls, lastConnect, transports, net, unet, now, onChange,
                   direct, crashed>>

\* PeersCleanup, s.Peers.Delete(toDelete...)
AdvDelete(n) ==
    /\ advPC[n] = "delete"
    /\ ~crashed[n]
    /\ Peers' = [Peers EXCEPT ![n] = Delete(@, SetToSeq(toDelete[n].keys))]
    /\ toDelete' = [toDelete EXCEPT ![n] = NoDelete]
    /\ advPC' = [advPC EXCEPT ![n] = "select"]
    /\ UNCHANGED mapVars
    /\ UNCHANGED <<cfg, route, ourSendAddr, epoch, cancel, ctxDone, sockets, wg, connections,
                   mrPC, urPC, stopPC, lastStop, stopCalls, connPC,
                   connCalls, lastConnect, transports, net, unet, now, onChange,
                   direct, crashed>>

(***************************************************************************)
(* Server.runMulticastReceive                                              *)
(***************************************************************************)
\* continue: back to the select at the top of the loop, which returns (and
\* runs the deferred wg.Done) once the context is cancelled
MrContinue(n) ==
    /\ mrPC' = [mrPC EXCEPT ![n] = IF ctxDone[n] THEN "exited" ELSE "read"]
    /\ wg' = [wg EXCEPT ![n] = IF ctxDone[n] THEN @ - 1 ELSE @]

\* a callback that is handed the version before the Set
changeOldVersion(n, version) ==
    onChange' = [onChange EXCEPT ![n] = [calls |-> @.calls + 1, version |-> version - 1]]

\* s.change(version)
change(n, version) ==
    onChange' = [onChange EXCEPT ![n] = [calls |-> @.calls + 1, version |-> version]]

\* addr.IP.Equal(ourAddr.IP) && addr.Port == ourAddr.Port
OwnPacket(n, d) == d.srcIP = ourSendAddr[n].IP /\ d.srcPort = ourSendAddr[n].Port

\* a comparison that spares the receiver at equal epochs
MustExitStrict(theirEpoch, ourEpoch) == theirEpoch < ourEpoch

\* if theirEpoch <= s.epoch.Load(): "exiting", the receiver calls s.Stop();
\* else it logs "they should exit" and continues
MustExit(theirEpoch, ourEpoch) == theirEpoch <= ourEpoch

\* a PeerData that keeps the last-seen time of the entry it replaces
NewPeerDataKeepingTime(s, peer, port, e, t) ==
    [HumanHash |-> IF Has(s, peer) THEN Get(s, peer).value.HumanHash
                   ELSE IF IdentityPublicKeyString(peer.PublicKey).err THEN "BAD-PKEY"
                   ELSE HumanHash(IdentityPublicKeyString(peer.PublicKey).pub),
     Port |-> port, Epoch |-> e,
     LastSeen |-> IF Has(s, peer) THEN Get(s, peer).value.LastSeen ELSE t]

\* the PeerData stored for a beacon: a known peer keeps its HumanHash, a new
\* one gets the hash of its decoded key, or BAD-PKEY
NewPeerData(s, peer, port, e, t) ==
    [HumanHash |-> IF Has(s, peer) THEN Get(s, peer).value.HumanHash
                   ELSE IF IdentityPublicKeyString(peer.PublicKey).err THEN "BAD-PKEY"
                   ELSE HumanHash(IdentityPublicKeyString(peer.PublicKey).pub),
     Port |-> port, Epoch |-> e, LastSeen |-> t]

\* one datagram read from broadcastListen and handled
McastReceive(n) ==
    /\ mrPC[n] = "read"
    /\ ~crashed[n]
    /\ sockets[n].mcast = "open"
    /\ \E d \in {x \in net : x.dst = n} :
        /\ net' = net \ {d}
        /\ LET msg  == MCastMessageDecode(d.buf)
               peer == [IP |-> d.srcIP, Name |-> msg.name, PublicKey |-> msg.pubKey]
           IN
           IF OwnPacket(n, d) \/ msg.err
           THEN /\ MrContinue(n)
                /\ UNCHANGED <<Peers, onChange, stopPC>>
           ELSE IF peer = Us(n)
           THEN /\ IF MustExit(msg.epoch, epoch[n])
                   THEN /\ mrPC' = [mrPC EXCEPT ![n] = "stop"]
                        /\ stopPC' = [stopPC EXCEPT ![n]["mr"] = "enter"]
                        /\ UNCHANGED wg
                   ELSE /\ MrContinue(n)
                        /\ UNCHANGED stopPC
                /\ UNCHANGED <<Peers, onChange>>
           ELSE /\ Peers' = [Peers EXCEPT ![n] =
                      Set(@, peer, NewPeerData(@, peer, d.srcPort, msg.epoch, now))]
                /\ change(n, Version(Peers'[n]))
                /\ MrContinue(n)
                /\ UNCHANGED stopPC
    /\ UNCHANGED mapVars
    /\ UNCHANGED <<cfg, route, ourSendAddr, epoch, cancel, ctxDone, sockets, connections,
                   advPC, toDelete, urPC, lastStop, stopCalls, connPC,
                   connCalls, lastConnect, transports, unet, now, direct, crashed>>

\* a host of the multicast group that runs no engine writes a datagram in the
\* discovery format to the group; the format has no field but the name, the
\* key string and the epoch, so the host declares any key it likes: here the
\* name of B with B's key or with a string that is no key, one datagram at a
\* time and until an engine has taken one
OutsiderIP == "10.0.0.9"
OutsiderPort == 5009

ForgedBeacon ==
    /\ \A d \in net : d.srcIP # OutsiderIP
    /\ \A n \in Nodes : \A p \in DOMAIN Peers[n].m : p.IP # OutsiderIP
    /\ \E key \in {HostB.PublicKey, PrivateKeyToString(Bob)} :
        net' = net \cup
            {[dst |-> m, srcIP |-> OutsiderIP, srcPort |-> OutsiderPort,
              buf |-> DiscoveryMessage(HostB.Name, key, 1)] :
                m \in {x \in Nodes : sockets[x].mcast = "open"}}
    /\ net' # net
    /\ UNCHANGED mapVars
    /\ UNCHANGED <<cfg, route, ourSendAddr, epoch, cancel, ctxDone, sockets, wg, Peers,
                   connections, advPC, toDelete, mrPC, urPC, stopPC, lastStop, stopCalls,
                   connPC, connCalls, lastConnect, transports, unet, now, onChange,
                   direct, crashed>>

\* what the group carries besides beacons: a text in another format and a
\* beacon cut short before its epoch; Sscanf fails on both
Garbled == {<<"hello">>, <<"tsync1", HostB.Name, HostB.PublicKey>>}

\* the host that runs no engine writes such a datagram to the group once every
\* engine listens, one at a time
GarbledDatagram ==
    /\ \A d \in net : d.srcIP # OutsiderIP
    /\ \A x \in Nodes : sockets[x].mcast = "open"
    /\ \E buf \in Garbled :
        net' = net \cup
            {[dst |-> m, srcIP |-> OutsiderIP, srcPort |-> OutsiderPort, buf |-> buf] :
                m \in {x \in Nodes : sockets[x].mcast = "open"}}
    /\ net' # net
    /\ UNCHANGED mapVars
    /\ UNCHANGED <<cfg, route, ourSendAddr, epoch, cancel, ctxDone, sockets, wg, Peers,
                   connections, advPC, toDelete, mrPC, urPC, stopPC, lastStop, stopCalls,
                   connPC, connCalls, lastConnect, transports, unet, now, onChange,
                   direct, crashed>>

\* ReadFromUDP fails on the closed socket; the loop continues to its select
McastReadError(n) ==
    /\ mrPC[n] = "read"
    /\ ~crashed[n]
    /\ sockets[n].mcast = "closed"
    /\ MrContinue(n)
    /\ UNCHANGED mapVars
    /\ UNCHANGED <<cfg, route, ourSendAddr, epoch, cancel, ctxDone, sockets, Peers, connections,
                   advPC, toDelete, urPC, stopPC, lastStop, stopCalls, connPC,
                   connCalls, lastConnect, transports, net, unet, now, onChange,
                   direct, crashed>>

(***************************************************************************)
(* Server.runUnicastReceive, handleDirectMessage, handleConnectionRequest  *)
(***************************************************************************)
UrContinue(n) ==
    /\ urPC' = [urPC EXCEPT ![n] = IF ctxDone[n] THEN "exited" ELSE "read"]
    /\ wg' = [wg EXCEPT ![n] = IF ctxDone[n] THEN @ - 1 ELSE @]

\* a handleConnectionRequest that does not compare the target with s.Name
handleAnyTarget(n, buf) ==
    IF Len(buf) = 3 /\ buf[1] = "connect1" THEN "request" ELSE "unknown"

\* what handleDirectMessage does with a payload: only a connect request whose
\* target is s.Name passes handleConnectionRequest's check
handleDirectMessage(n, buf) ==
    IF Len(buf) = 3 /\ buf[1] = "connect1"
    THEN IF buf[3] # cfg[n].Name THEN "mismatch" ELSE "request"
    ELSE "unknown"

UnicastReceive(n) ==
    /\ urPC[n] = "read"
    /\ ~crashed[n]
    /\ sockets[n].dual = "open"
    /\ \E d \in {x \in unet : x.dstIP = cfg[n].IP /\ x.dstPort = SendPort[n]} :
        /\ unet' = unet \ {d}
        /\ direct' = [direct EXCEPT ![n] = handleDirectMessage(n, d.buf)]
    /\ UrContinue(n)
    /\ UNCHANGED mapVars
    /\ UNCHANGED <<cfg, route, ourSendAddr, epoch, cancel, ctxDone, sockets, Peers, connections,
                   advPC, toDelete, mrPC, stopPC, lastStop, stopCalls, connPC,
                   connCalls, lastConnect, transports, net, now, onChange, crashed>>

\* a host that is no engine writes a datagram to the unicast port of engine n:
\* a connect request for n or for another name, a beacon, or anything else
ForgedUnicast(n) ==
    /\ sockets[n].dual = "open"
    /\ \E buf \in {ConnectMessage("X", cfg[n].Name), ConnectMessage("X", "Z"),
                    DiscoveryMessage("X", HostB.PublicKey, 1), <<"hello">>} :
        unet' = unet \cup {[dstIP |-> cfg[n].IP, dstPort |-> SendPort[n],
                            via |-> NoConn, buf |-> buf]}
    /\ unet' # unet
    /\ UNCHANGED mapVars
    /\ UNCHANGED <<cfg, route, ourSendAddr, epoch, cancel, ctxDone, sockets, wg, Peers,
                   connections, advPC, toDelete, mrPC, urPC, stopPC, lastStop, stopCalls,
                   connPC, connCalls, lastConnect, transports, net, now, onChange,
                   direct, crashed>>

UnicastReadError(n) ==
    /\ urPC[n] = "read"
    /\ ~crashed[n]
    /\ sockets[n].dual = "closed"
    /\ UrContinue(n)
    /\ UNCHANGED mapVars
    /\ UNCHANGED <<cfg, route, ourSendAddr, epoch, cancel, ctxDone, sockets, Peers, connections,
                   advPC, toDelete, mrPC, stopPC, lastStop, stopCalls, connPC,
                   connCalls, lastConnect, transports, net, unet, now, onChange,
                   direct, crashed>>

(***************************************************************************)
(* Server.Stop, statement by statement, for each goroutine that calls it   *)
(***************************************************************************)
\* Stop returns to its caller; the multicast receiver goes on with its loop
StopReturn(n, c, how) ==
    /\ stopPC' = [stopPC EXCEPT ![n][c] = "idle"]
    /\ lastStop' = [lastStop EXCEPT ![n][c] = how]
    /\ IF c = "mr" THEN MrContinue(n) ELSE UNCHANGED <<mrPC, wg>>

\* an outside caller calls Stop
StopCall(n) ==
    /\ n \in Apps
    /\ stopPC[n]["ext"] = "idle"
    /\ ~crashed[n]
    /\ stopCalls < MaxStops
    /\ stopCalls' = stopCalls + 1
    /\ stopPC' = [stopPC EXCEPT ![n]["ext"] = "enter"]
    /\ UNCHANGED mapVars
    /\ UNCHANGED <<cfg, route, ourSendAddr, epoch, cancel, ctxDone, sockets, wg, Peers,
                   connections, advPC, toDelete, mrPC, urPC, lastStop, connPC,
                   connCalls, lastConnect, transports, net, unet, now, onChange,
                   direct, crashed>>

\* if s.Stopped() { return }
StopEnter(n, c) ==
    /\ stopPC[n][c] = "enter"
    /\ ~crashed[n]
    /\ IF Stopped(n)
       THEN StopReturn(n, c, "stopped")
       ELSE /\ stopPC' = [stopPC EXCEPT ![n][c] = "store"]
            /\ UNCHANGED <<lastStop, mrPC, wg>>
    /\ UNCHANGED mapVars
    /\ UNCHANGED <<cfg, route, ourSendAddr, epoch, cancel, ctxDone, sockets, Peers, connections,
                   advPC, toDelete, urPC, stopCalls, connPC, connCalls,
                   lastConnect, transports, net, unet, now, onChange, direct,
                   crashed>>

\* s.epoch.Store(epochStopMarker)
StopStore(n, c) ==
    /\ stopPC[n][c] = "store"
    /\ ~crashed[n]
    /\ epoch' = [epoch EXCEPT ![n] = epochStopMarker]
    /\ stopPC' = [stopPC EXCEPT ![n][c] = "check"]
    /\ UNCHANGED mapVars
    /\ UNCHANGED <<cfg, route, ourSendAddr, cancel, ctxDone, sockets, wg, Peers, connections,
                   advPC, toDelete, mrPC, urPC, lastStop, stopCalls, connPC,
                   connCalls, lastConnect, transports, net, unet, now, onChange,
                   direct, crashed>>

\* a Stop that goes on to close the sockets without calling s.cancel()
StopCheckThenClose(n, c) ==
    /\ stopPC[n][c] = "check"
    /\ ~crashed[n]
    /\ IF cancel[n] = "nil"
       THEN StopReturn(n, c, "nocancel")
       ELSE /\ stopPC' = [stopPC EXCEPT ![n][c] = "close"]
            /\ UNCHANGED <<lastStop, mrPC, wg>>
    /\ UNCHANGED mapVars
    /\ UNCHANGED <<cfg, route, ourSendAddr, epoch, cancel, ctxDone, sockets, Peers, connections,
                   advPC, toDelete, urPC, stopCalls, connPC, connCalls,
                   lastConnect, transports, net, unet, now, onChange, direct,
                   crashed>>

\* if s.cancel == nil { return }
StopCheck(n, c) ==
    /\ stopPC[n][c] = "check"
    /\ ~crashed[n]
    /\ IF cancel[n] = "nil"
       THEN StopReturn(n, c, "nocancel")
       ELSE /\ stopPC' = [stopPC EXCEPT ![n][c] = "cancel"]
            /\ UNCHANGED <<lastStop, mrPC, wg>>
    /\ UNCHANGED mapVars
    /\ UNCHANGED <<cfg, route, ourSendAddr, epoch, cancel, ctxDone, sockets, Peers, connections,
                   advPC, toDelete, urPC, stopCalls, connPC, connCalls,
                   lastConnect, transports, net, unet, now, onChange, direct,
                   crashed>>

\* s.cancel(): the field is read again, unsynchronized; calling a nil func panics
StopCancel(n, c) ==
    /\ stopPC[n][c] = "cancel"
    /\ ~crashed[n]
    /\ IF cancel[n] = "nil"
       THEN /\ crashed' = [crashed EXCEPT ![n] = TRUE]
            /\ UNCHANGED <<ctxDone, stopPC>>
       ELSE /\ ctxDone' = [ctxDone EXCEPT ![n] = TRUE]
            /\ stopPC' = [stopPC EXCEPT ![n][c] = "close"]
            /\ UNCHANGED crashed
    /\ UNCHANGED mapVars
    /\ UNCHANGED <<cfg, route, ourSendAddr, epoch, cancel, sockets, wg, Peers, connections,
                   advPC, toDelete, mrPC, urPC, lastStop, stopCalls, connPC,
                   connCalls, lastConnect, transports, net, unet, now, onChange,
                   direct>>

\* s.cancel = nil; s.broadcastListen.Close(); s.dualUDPSock.Close()
StopClose(n, c) ==
    /\ stopPC[n][c] = "close"
    /\ ~crashed[n]
    /\ cancel' = [cancel EXCEPT ![n] = "nil"]
    /\ sockets' = [sockets EXCEPT ![n] = [mcast |-> "closed", dual |-> "closed"]]
    /\ stopPC' = [stopPC EXCEPT ![n][c] = "wait"]
    /\ UNCHANGED mapVars
    /\ UNCHANGED <<cfg, route, ourSendAddr, epoch, ctxDone, wg, Peers, connections, advPC,
                   toDelete, mrPC, urPC, lastStop, stopCalls, connPC,
                   connCalls, lastConnect, transports, net, unet, now, onChange,
                   direct, crashed>>

\* s.wg.Wait()
StopWait(n, c) ==
    /\ stopPC[n][c] = "wait"
    /\ ~crashed[n]
    /\ wg[n] = 0
    /\ stopPC' = [stopPC EXCEPT ![n][c] = "conns"]
    /\ UNCHANGED mapVars
    /\ UNCHANGED <<cfg, route, ourSendAddr, epoch, cancel, ctxDone, sockets, wg, Peers,
                   connections, advPC, toDelete, mrPC, urPC, lastStop,
                   stopCalls, connPC, connCalls, lastConnect, transports, net, unet,
                   now, onChange, direct, crashed>>

\* the transports the entries of a Connections registry hold
Held(s) == {s.m[p].Conn : p \in {q \in DOMAIN s.m : s.m[q].Conn # NoConn}}

\* conn.Conn.Close() for each of ids
CloseAll(ts, ids) ==
    [i \in DOMAIN ts |-> IF i \in ids THEN [ts[i] EXCEPT !.state = "closed"] ELSE ts[i]]

\* for _, conn := range s.connections.All() { conn.Conn.Close() }, and return
StopConns(n, c) ==
    /\ stopPC[n][c] = "conns"
    /\ ~crashed[n]
    /\ transports' = CloseAll(transports, Held(connections[n]))
    /\ StopReturn(n, c, "full")
    /\ UNCHANGED mapVars
    /\ UNCHANGED <<cfg, route, ourSendAddr, epoch, cancel, ctxDone, sockets, Peers, connections,
                   advPC, toDelete, urPC, stopCalls, connPC, connCalls,
                   lastConnect, net, unet, now, onChange, direct, crashed>>

(***************************************************************************)
(* Server.ConnectToPeer, called by a goroutine of the application          *)
(***************************************************************************)
\* an entry whose status is promoted as soon as the request is on its way
ConnectionPromoted(peer, status, at, conn) ==
    [Peer |-> peer, Status |-> IF status = "ConnSent" THEN "Connected" ELSE status,
     CreatedAt |-> at, Conn |-> conn]

Connection(peer, status, at, conn) ==
    [Peer |-> peer, Status |-> status, CreatedAt |-> at, Conn |-> conn]

\* s.connections.Set(peer, conn) with status Connecting, then the lookup of
\* the peer: "not found" returns the error
ConnectBegin(n) ==
    /\ n \in Apps
    /\ connPC[n].pc = "idle"
    /\ ~crashed[n]
    /\ connCalls < MaxConnects
    /\ connCalls' = connCalls + 1
    /\ \E peer \in {HostA, HostB} :
        /\ connections' = [connections EXCEPT ![n] =
                              Set(@, peer, Connection(peer, "Connecting", now, NoConn))]
        /\ IF Get(Peers[n], peer).ok
           THEN /\ connPC' = [connPC EXCEPT ![n] =
                      [pc |-> "dial", peer |-> peer, port |-> Get(Peers[n], peer).value.Port,
                       at |-> now, conn |-> NoConn]]
                /\ UNCHANGED lastConnect
           ELSE /\ lastConnect' = [lastConnect EXCEPT ![n] = "notfound"]
                /\ UNCHANGED connPC
    /\ UNCHANGED mapVars
    /\ UNCHANGED <<cfg, route, ourSendAddr, epoch, cancel, ctxDone, sockets, wg, Peers, advPC,
                   toDelete, mrPC, urPC, stopPC, lastStop, stopCalls,
                   transports, net, unet, now, onChange, direct, crashed>>

\* net.DialUDP, and on success the second Set, with status ConnSent and the conn
ConnectDial(n) ==
    /\ connPC[n].pc = "dial"
    /\ ~crashed[n]
    /\ \E ok \in BOOLEAN :
        IF ok
        THEN /\ transports' = Append(transports,
                    [owner |-> n, peer |-> connPC[n].peer, port |-> connPC[n].port,
                     state |-> "open"])
             /\ connections' = [connections EXCEPT ![n] =
                    Set(@, connPC[n].peer,
                        Connection(connPC[n].peer, "ConnSent", connPC[n].at,
                                   Len(transports) + 1))]
             /\ connPC' = [connPC EXCEPT ![n].pc = "write",
                                         ![n].conn = Len(transports) + 1]
             /\ UNCHANGED lastConnect
        ELSE /\ lastConnect' = [lastConnect EXCEPT ![n] = "dialerr"]
             /\ connPC' = [connPC EXCEPT ![n].pc = "idle"]
             /\ UNCHANGED <<transports, connections>>
    /\ UNCHANGED mapVars
    /\ UNCHANGED <<cfg, route, ourSendAddr, epoch, cancel, ctxDone, sockets, wg, Peers, advPC,
                   toDelete, mrPC, urPC, stopPC, lastStop, stopCalls,
                   connCalls, net, unet, now, onChange, direct, crashed>>

\* udpConn.Write of the connect request, a datagram from the socket DialUDP
\* made (via); on error Close and Delete(peer)
ConnectWrite(n) ==
    /\ connPC[n].pc = "write"
    /\ ~crashed[n]
    /\ \E ok \in BOOLEAN :
        IF ok /\ transports[connPC[n].conn].state = "open"
        THEN /\ unet' = unet \cup
                    {[dstIP |-> connPC[n].peer.IP, dstPort |-> connPC[n].port,
                      via |-> connPC[n].conn,
                      buf |-> ConnectMessage(cfg[n].Name, connPC[n].peer.Name)]}
             /\ lastConnect' = [lastConnect EXCEPT ![n] = "ok"]
             /\ UNCHANGED <<transports, connections>>
        ELSE /\ transports' = CloseAll(transports, {connPC[n].conn})
             /\ connections' = [connections EXCEPT ![n] = Delete(@, <<connPC[n].peer>>)]
             /\ lastConnect' = [lastConnect EXCEPT ![n] = "writeerr"]
             /\ UNCHANGED unet
    /\ connPC' = [connPC EXCEPT ![n].pc = "idle"]
    /\ UNCHANGED mapVars
    /\ UNCHANGED <<cfg, route, ourSendAddr, epoch, cancel, ctxDone, sockets, wg, Peers, advPC,
                   toDelete, mrPC, urPC, stopPC, lastStop, stopCalls,
                   connCalls, net, now, onChange, direct, crashed>>

(***************************************************************************)
(* The specifications                                                      *)
(***************************************************************************)
\* two hosts with distinct identities; no engine is started
Distinct == cfg["n2"] = HostB

\* two engines with the same identity: two instances on one host
Duplicates == cfg["n2"] = HostA

\* interface detection succeeds on every host
Routed == \A n \in Nodes : route[n]

\* SpecMap: the Map alone, called by its threads
MapInit ==
    /\ InitMap
    /\ InitEngine
    /\ Distinct
    /\ Routed

MapNext ==
    \E t \in Threads :
        \/ CallSet(t) /\ UNCHANGED <<iterVars, cryptoVars, engineVars>>
        \/ CallMultiSet(t) /\ UNCHANGED <<iterVars, cryptoVars, engineVars>>
        \/ CallDelete(t) /\ UNCHANGED <<iterVars, cryptoVars, engineVars>>
        \/ CallClear(t) /\ UNCHANGED <<iterVars, cryptoVars, engineVars>>
        \/ CallGet(t) /\ UNCHANGED <<iterVars, cryptoVars, engineVars>>
        \/ CallHas(t) /\ UNCHANGED <<iterVars, cryptoVars, engineVars>>
        \/ CallLen(t) /\ UNCHANGED <<iterVars, cryptoVars, engineVars>>
        \/ CallVersion(t) /\ UNCHANGED <<iterVars, cryptoVars, engineVars>>
        \/ CallAll(t) /\ UNCHANGED <<iterVars, cryptoVars, engineVars>>

SpecMap == MapInit /\ [][MapNext]_vars

\* the lists a first MultiSet call is given: up to three entries with value 1,
\* their keys in ascending order
FirstLists ==
    {q \in SeqsUpTo([Key : Keys, Value : {1}], 3) :
        \A i, j \in 1..Len(q) : i < j => Ascending(q[i].Key, q[j].Key)}

\* SpecIter: threads iterating over the Map and changing it.  The Map starts
\* as one MultiSet call on a new Map leaves it
IterInit ==
    /\ \E kvs \in FirstLists :
        /\ smap = MultiSet(New, kvs)
        /\ last = [thread |-> "t1", type |-> "MultiSet", n |-> Len(kvs), args |-> kvs,
                   res |-> 1]
    /\ calls = 1
    /\ returned = <<1>>
    /\ mutations = 1
    /\ rlocked = {}
    /\ lockWait = {}
    /\ iter = [t \in Threads |-> NoIter]
    /\ visited = [t \in Threads |-> <<>>]
    /\ iters = 0
    /\ crypto = NoCall
    /\ InitEngine
    /\ Distinct
    /\ Routed

IterSpecNext ==
    \E t \in Threads :
        \/ IterStart(t) /\ UNCHANGED <<cryptoVars, engineVars>>
        \/ IterNext(t) /\ UNCHANGED <<cryptoVars, engineVars>>
        \/ IterContinue(t) /\ UNCHANGED <<cryptoVars, engineVars>>
        \/ IterBreak(t) /\ UNCHANGED <<cryptoVars, engineVars>>
        \/ WriteCall(t) /\ UNCHANGED <<cryptoVars, engineVars>>
        \/ WriteDo(t) /\ UNCHANGED <<cryptoVars, engineVars>>

SpecIter == IterInit /\ [][IterSpecNext]_vars

\* SpecCallback: the receiver stores one beacon and its OnChange callback calls
\* the registry, while the other goroutine traverses the Map and deletes from
\* it between its traversals
\* the registry holds two Peers, stored by one MultiSet
CallbackInit ==
    /\ smap = MultiSet(New, <<[Key |-> "a", Value |-> 1], [Key |-> "b", Value |-> 1]>>)
    /\ last = [thread |-> "t1", type |-> "MultiSet", n |-> 2,
               args |-> <<[Key |-> "a", Value |-> 1], [Key |-> "b", Value |-> 1]>>,
               res |-> 1]
    /\ calls = 1
    /\ returned = <<1>>
    /\ mutations = 1
    /\ rlocked = {}
    /\ lockWait = {}
    /\ iter = [t \in Threads |-> NoIter]
    /\ visited = [t \in Threads |-> <<>>]
    /\ iters = 0
    /\ crypto = NoCall
    /\ InitEngine
    /\ Distinct
    /\ Routed

\* a step of the registry's goroutines leaves the rest alone
RegistryOnly == UNCHANGED <<cryptoVars, engineVars>>

CallbackNext ==
    \/ RecvSet(Receiver) /\ RegistryOnly
    \/ RecvSetDone(Receiver) /\ RegistryOnly
    \/ OnChangeCall(Receiver) /\ RegistryOnly
    \/ CallbackStep(Receiver) /\ RegistryOnly
    \/ CallbackLookup(Receiver) /\ RegistryOnly
    \/ \E t \in Iterators :
        \/ TraversalStart(t) /\ RegistryOnly
        \/ IterNext(t) /\ RegistryOnly
        \/ IterContinue(t) /\ RegistryOnly
        \/ IterBreak(t) /\ RegistryOnly
        \/ DeleteAfterLoop(t) /\ RegistryOnly
        \/ WriteDo(t) /\ RegistryOnly

\* every goroutine that can run does: a granted lock is taken, a loop body
\* that makes no call ends, the callback is called once Set has returned
SpecCallback ==
    /\ CallbackInit
    /\ [][CallbackNext]_vars
    /\ WF_vars(RecvSetDone(Receiver) /\ RegistryOnly)
    /\ WF_vars(OnChangeCall(Receiver) /\ RegistryOnly)
    /\ WF_vars(CallbackStep(Receiver) /\ RegistryOnly)
    /\ WF_vars(CallbackLookup(Receiver) /\ RegistryOnly)
    /\ \A t \in Iterators :
          /\ WF_vars(IterNext(t) /\ RegistryOnly)
          /\ WF_vars(IterContinue(t) /\ RegistryOnly)
          /\ WF_vars(WriteDo(t) /\ RegistryOnly)

\* Spec: two engines with distinct identities, each on a host where interface
\* detection succeeds or fails, discover each other; the clock stands still
Init ==
    /\ InitMap
    /\ InitEngine
    /\ Distinct

Next ==
    \E n \in Nodes :
        \/ Start(n)
        \/ AdvTick(n)
        \/ AdvScan(n)
        \/ McastReceive(n)

Spec == Init /\ [][Next]_vars

\* SpecExpiry: two engines with distinct identities while time passes;
\* interface detection succeeds on n2's host
ExpiryInit ==
    /\ InitMap
    /\ InitEngine
    /\ Distinct
    /\ route["n2"]

ExpiryNext ==
    \/ Tick
    \/ \E n \in Nodes :
        \/ Start(n)
        \/ AdvTick(n)
        \/ AdvScan(n)
        \/ AdvDelete(n)
        \/ McastReceive(n)

SpecExpiry == ExpiryInit /\ [][ExpiryNext]_vars

\* SpecSelf: two engines with the same identity; the receiver that finds itself
\* the duplicate calls Stop, whose wg.Wait() then waits for that very receiver
SelfInit ==
    /\ InitMap
    /\ InitEngine
    /\ Duplicates
    /\ Routed

SelfNext ==
    \E n \in Nodes :
        \/ Start(n)
        \/ AdvTick(n)
        \/ AdvExit(n)
        \/ AdvScan(n)
        \/ McastReceive(n)
        \/ UnicastReadError(n)
        \/ StopEnter(n, "mr")
        \/ StopStore(n, "mr")
        \/ StopCheck(n, "mr")
        \/ StopCancel(n, "mr")
        \/ StopClose(n, "mr")

SpecSelf == SelfInit /\ [][SelfNext]_vars

\* SpecRace: two engines with the same identity, and the application of one
\* calls Stop as well
RaceInit ==
    /\ InitMap
    /\ InitEngine
    /\ Duplicates
    /\ Routed

RaceNext ==
    \E n \in Nodes :
        \/ Start(n)
        \/ AdvTick(n)
        \/ AdvExit(n)
        \/ AdvScan(n)
        \/ McastReceive(n)
        \/ McastReadError(n)
        \/ UnicastReadError(n)
        \/ StopCall(n)
        \/ \E c \in Callers :
            \/ StopEnter(n, c)
            \/ StopStore(n, c)
            \/ StopCheck(n, c)
            \/ StopCancel(n, c)
            \/ StopClose(n, c)
            \/ StopWait(n, c)
            \/ StopConns(n, c)

SpecRace == RaceInit /\ [][RaceNext]_vars

\* FairRace: SpecRace in which every goroutine takes the steps it can take:
\* the loops of the engines, and the callers of Stop inside Stop
FairRace ==
    /\ RaceInit
    /\ [][RaceNext]_vars
    /\ \A n \in Nodes :
          /\ WF_vars(AdvExit(n))
          /\ WF_vars(AdvScan(n))
          /\ WF_vars(McastReceive(n))
          /\ WF_vars(McastReadError(n))
          /\ WF_vars(UnicastReadError(n))
          /\ \A c \in Callers :
                /\ WF_vars(StopEnter(n, c))
                /\ WF_vars(StopStore(n, c))
                /\ WF_vars(StopCheck(n, c))
                /\ WF_vars(StopCancel(n, c))
                /\ WF_vars(StopClose(n, c))
                /\ WF_vars(StopWait(n, c))
                /\ WF_vars(StopConns(n, c))

\* SpecWrap: two engines that have been running for so long that their epoch
\* counters are MaxEpoch ticks from the largest int32, no beacon having been
\* delivered; the beacons sent from here on stay in flight
WrapInit ==
    /\ InitMap
    /\ cfg = [n \in Nodes |-> IF n = "n1" THEN HostA ELSE HostB]
    /\ route = [n \in Nodes |-> TRUE]
    /\ ourSendAddr = [n \in Nodes |-> [IP |-> cfg[n].IP, Port |-> SendPort[n]]]
    /\ epoch = [n \in Nodes |-> MaxInt32 - MaxEpoch]
    /\ cancel = [n \in Nodes |-> "set"]
    /\ ctxDone = [n \in Nodes |-> FALSE]
    /\ sockets = [n \in Nodes |-> [mcast |-> "open", dual |-> "open"]]
    /\ wg = [n \in Nodes |-> 3]
    /\ Peers = [n \in Nodes |-> New]
    /\ connections = [n \in Nodes |-> New]
    /\ advPC = [n \in Nodes |-> "select"]
    /\ toDelete = [n \in Nodes |-> NoDelete]
    /\ mrPC = [n \in Nodes |-> "read"]
    /\ urPC = [n \in Nodes |-> "read"]
    /\ stopPC = [n \in Nodes |-> [c \in Callers |-> "idle"]]
    /\ lastStop = [n \in Nodes |-> [c \in Callers |-> "none"]]
    /\ stopCalls = 0
    /\ connPC = [n \in Nodes |-> [pc |-> "idle", peer |-> HostA, port |-> 0, at |-> 0,
                                  conn |-> NoConn]]
    /\ connCalls = 0
    /\ lastConnect = [n \in Nodes |-> "none"]
    /\ transports = <<>>
    /\ net = {}
    /\ unet = {}
    /\ now = 0
    /\ onChange = [n \in Nodes |-> [calls |-> 0, version |-> 0]]
    /\ direct = [n \in Nodes |-> "none"]
    /\ crashed = [n \in Nodes |-> FALSE]

WrapNext ==
    \E n \in Nodes :
        \/ AdvTick(n)
        \/ AdvExit(n)
        \/ AdvScan(n)
        \/ McastReadError(n)
        \/ UnicastReadError(n)
        \/ StopCall(n)
        \/ StopEnter(n, "ext")
        \/ StopStore(n, "ext")
        \/ StopCheck(n, "ext")
        \/ StopCancel(n, "ext")
        \/ StopClose(n, "ext")
        \/ StopWait(n, "ext")
        \/ StopConns(n, "ext")

SpecWrap == WrapInit /\ [][WrapNext]_vars

\* SpecForge: two engines with distinct identities and a host that writes
\* datagrams of its own making to the group
ForgeInit ==
    /\ InitMap
    /\ InitEngine
    /\ Distinct
    /\ Routed

ForgeNext ==
    \/ ForgedBeacon
    \/ \E n \in Nodes :
        \/ Start(n)
        \/ AdvTick(n)
        \/ AdvScan(n)
        \/ McastReceive(n)

SpecForge == ForgeInit /\ [][ForgeNext]_vars

\* SpecBeacon: two engines, with distinct identities or with the same one, on
\* hosts where interface detection succeeds, and a host that writes beacons of
\* its own making and datagrams in no format to the group
BeaconInit ==
    /\ InitMap
    /\ InitEngine
    /\ Routed

BeaconNext ==
    \/ ForgedBeacon
    \/ GarbledDatagram
    \/ \E n \in Nodes :
        \/ Start(n)
        \/ AdvTick(n)
        \/ AdvScan(n)
        \/ McastReceive(n)

SpecBeacon == BeaconInit /\ [][BeaconNext]_vars

\* SpecUpdate: two engines with distinct identities and the host that writes
\* beacons of its own making, while time passes and entries expire; the
\* registry watched is that of n1, the receiver of n2 is not scheduled
UpdateInit ==
    /\ InitMap
    /\ InitEngine
    /\ Distinct
    /\ Routed

UpdateNext ==
    \/ Tick
    \/ ForgedBeacon
    \/ McastReceive("n1")
    \/ \E n \in Nodes :
        \/ Start(n)
        \/ AdvTick(n)
        \/ AdvScan(n)
        \/ AdvDelete(n)

SpecUpdate == UpdateInit /\ [][UpdateNext]_vars

\* ---- SpecSign: a message is signed, the signed string may be changed on its
\* way, and it is verified with the public key of some identity

\* the strings that differ from s by one character put in the place of
\* another, by one character more, or by one character less
Changed(s) ==
    ({[s EXCEPT ![i] = c] : i \in 1..Len(s), c \in Chars}
        \cup {SubSeq(s, 1, i) \o <<c>> \o SubSeq(s, i + 1, Len(s)) :
                i \in 0..Len(s), c \in Chars}
        \cup {SubSeq(s, 1, i - 1) \o SubSeq(s, i + 1, Len(s)) : i \in 1..Len(s)})
    \ {s}

\* id.SignMessage(message)
SignStep ==
    /\ crypto.stage = "new"
    /\ crypto' = [stage |-> "signed", id |-> crypto.id, message |-> crypto.message,
                  signed |-> SignMessage(crypto.id, crypto.message),
                  given |-> SignMessage(crypto.id, crypto.message)]
    /\ UNCHANGED <<smap, calls, last, returned, mutations, iterVars, engineVars>>

\* the signed string is changed before it is verified
ChangeStep ==
    /\ crypto.stage = "signed"
    /\ \E s \in Changed(crypto.signed) :
        crypto' = [crypto EXCEPT !.stage = "changed", !.given = s]
    /\ UNCHANGED <<smap, calls, last, returned, mutations, iterVars, engineVars>>

\* VerifySignedMessage(given, pubKey)
VerifyStep ==
    /\ crypto.stage \in {"signed", "changed"}
    /\ \E id \in Identities :
        crypto' = [stage |-> "verified", id |-> crypto.id, message |-> crypto.message,
                   signed |-> crypto.signed, given |-> crypto.given,
                   pubKey |-> id.PublicKey,
                   result |-> VerifySignedMessage(crypto.given, id.PublicKey)]
    /\ UNCHANGED <<smap, calls, last, returned, mutations, iterVars, engineVars>>

SignInit ==
    /\ InitData
    /\ InitEngine
    /\ Distinct
    /\ Routed
    /\ crypto \in {[stage |-> "new", id |-> id, message |-> m] :
                     id \in Identities, m \in Messages}

SignNext ==
    \/ SignStep
    \/ ChangeStep
    \/ VerifyStep

SpecSign == SignInit /\ [][SignNext]_vars


\* ---- SpecKeys: a key or a signed message is put in its string form, the
\* string may get another tag, and one of the decoders is given it

\* what is put in string form, and by what
Roles(id) ==
    IF id \in Identities THEN {"public", "private", "signed"} ELSE {"ecdh"}

StringForm(id, role, m) ==
    IF role = "private" THEN PrivateKeyToString(id)
    ELSE IF role = "signed" THEN SignMessage(id, m)
    ELSE PublicKeyToString(id)

\* the tags a string can be given in the place of its own: the three tags,
\* none, and two characters of the alphabet
Tags == {SignedPrefix, PrivateKeyPrefix, PublicKeyPrefix, <<>>, <<0, 0>>}

Decoders == {"IdentityPublicKeyString", "IdentityFromPrivateKey", "StringToPublicKey"}

\* what the decoder gives: an error or the bytes of the key
Decode(decoder, str) ==
    IF decoder = "IdentityPublicKeyString"
    THEN [err |-> IdentityPublicKeyString(str).err,
          bytes |-> IdentityPublicKeyString(str).pub]
    ELSE IF decoder = "IdentityFromPrivateKey"
    THEN [err |-> IdentityFromPrivateKey(str).err,
          bytes |-> IdentityFromPrivateKey(str).PrivateKey]
    ELSE StringToPublicKey(str)

EncodeKeyStep ==
    /\ crypto.stage = "key"
    /\ \E role \in Roles(crypto.id), m \in Messages :
        crypto' = [stage |-> "encoded", id |-> crypto.id, role |-> role,
                   str |-> StringForm(crypto.id, role, m),
                   given |-> StringForm(crypto.id, role, m)]
    /\ UNCHANGED <<smap, calls, last, returned, mutations, iterVars, engineVars>>

RetagStep ==
    /\ crypto.stage = "encoded"
    /\ \E tag \in Tags :
        /\ SubSeq(crypto.str, 1, 2) # tag
        /\ crypto' = [crypto EXCEPT !.stage = "retagged",
                                    !.given = tag \o SubSeq(crypto.str, 3, Len(crypto.str))]
    /\ UNCHANGED <<smap, calls, last, returned, mutations, iterVars, engineVars>>

DecodeKeyStep ==
    /\ crypto.stage \in {"encoded", "retagged"}
    /\ \E decoder \in Decoders :
        crypto' = [stage |-> "decoded", id |-> crypto.id, role |-> crypto.role,
                   str |-> crypto.str, given |-> crypto.given, decoder |-> decoder,
                   result |-> Decode(decoder, crypto.given)]
    /\ UNCHANGED <<smap, calls, last, returned, mutations, iterVars, engineVars>>

KeysInit ==
    /\ InitData
    /\ InitEngine
    /\ Distinct
    /\ Routed
    /\ crypto \in {[stage |-> "key", id |-> id] : id \in Identities \cup Ephemerals}

KeysNext ==
    \/ EncodeKeyStep
    \/ RetagStep
    \/ DecodeKeyStep

SpecKeys == KeysInit /\ [][KeysNext]_vars


\* ---- SpecHash: HumanHash is called twice with the same data

\* the digests sha256.Sum256 may give for the data: rejected bytes of value
\* hi first, then bytes that go up from base by step
Digest(rejected, hi, base, step) ==
    [i \in 1..DigestSize |->
        IF i <= rejected THEN hi ELSE (base + (i - rejected) * step) % 256]

Digests ==
    {Digest(rejected, hi, base, step) :
        rejected \in 0..DigestSize, hi \in {Unbiased, 255},
        base \in {0, 7, 249}, step \in {0, 1, 37}}

\* HumanHash(data), hashed being sha256.Sum256(data)
HashStep ==
    /\ crypto.stage = "data"
    /\ crypto' = [stage |-> "hashed", hashed |-> crypto.hashed,
                  result |-> HumanDigits(crypto.hashed, <<>>, 0)]
    /\ UNCHANGED <<smap, calls, last, returned, mutations, iterVars, engineVars>>

\* HumanHash(data) once more
HashAgainStep ==
    /\ crypto.stage = "hashed"
    /\ crypto' = [stage |-> "again", hashed |-> crypto.hashed, result |-> crypto.result,
                  again |-> HumanDigits(crypto.hashed, <<>>, 0)]
    /\ UNCHANGED <<smap, calls, last, returned, mutations, iterVars, engineVars>>

HashInit ==
    /\ InitData
    /\ InitEngine
    /\ Distinct
    /\ Routed
    /\ crypto \in {[stage |-> "data", hashed |-> h] : h \in Digests}

HashNext ==
    \/ HashStep
    \/ HashAgainStep

SpecHash == HashInit /\ [][HashNext]_vars


\* SpecConnect: two started engines with distinct identities, the first of
\* which has registered the second from its first beacon.  The application of
\* the first calls ConnectToPeer, either for the first time or after an
\* earlier call that succeeded (connCalls counts the calls from here on), and
\* other hosts write to the unicast ports
ConnectInit ==
    /\ InitMap
    /\ cfg = [n \in Nodes |-> IF n = "n1" THEN HostA ELSE HostB]
    /\ route = [n \in Nodes |-> TRUE]
    /\ ourSendAddr = [n \in Nodes |-> [IP |-> cfg[n].IP, Port |-> SendPort[n]]]
    /\ epoch = [n \in Nodes |-> IF n = "n1" THEN 0 ELSE 1]
    /\ cancel = [n \in Nodes |-> "set"]
    /\ ctxDone = [n \in Nodes |-> FALSE]
    /\ sockets = [n \in Nodes |-> [mcast |-> "open", dual |-> "open"]]
    /\ wg = [n \in Nodes |-> 3]
    /\ Peers = [n \in Nodes |->
                  IF n = "n1"
                  THEN Set(New, HostB, NewPeerData(New, HostB, SendPort["n2"], 1, 0))
                  ELSE New]
    /\ advPC = [n \in Nodes |-> "select"]
    /\ toDelete = [n \in Nodes |-> NoDelete]
    /\ mrPC = [n \in Nodes |-> "read"]
    /\ urPC = [n \in Nodes |-> "read"]
    /\ stopPC = [n \in Nodes |-> [c \in Callers |-> "idle"]]
    /\ lastStop = [n \in Nodes |-> [c \in Callers |-> "none"]]
    /\ stopCalls = 0
    /\ connPC = [n \in Nodes |-> [pc |-> "idle", peer |-> HostA, port |-> 0, at |-> 0,
                                  conn |-> NoConn]]
    /\ connCalls = 0
    /\ net = {}
    /\ unet = {}
    /\ now = 0
    /\ onChange = [n \in Nodes |-> IF n = "n1" THEN [calls |-> 1, version |-> 1]
                                   ELSE [calls |-> 0, version |-> 0]]
    /\ crashed = [n \in Nodes |-> FALSE]
    /\ \E connected \in BOOLEAN :
        IF connected
        THEN /\ transports = <<[owner |-> "n1", peer |-> HostB, port |-> SendPort["n2"],
                                state |-> "open"]>>
             /\ connections = [n \in Nodes |->
                    IF n = "n1"
                    THEN Set(Set(New, HostB, Connection(HostB, "Connecting", 0, NoConn)),
                             HostB, Connection(HostB, "ConnSent", 0, 1))
                    ELSE New]
             /\ lastConnect = [n \in Nodes |-> IF n = "n1" THEN "ok" ELSE "none"]
             /\ direct = [n \in Nodes |-> IF n = "n1" THEN "none" ELSE "request"]
        ELSE /\ transports = <<>>
             /\ connections = [n \in Nodes |-> New]
             /\ lastConnect = [n \in Nodes |-> "none"]
             /\ direct = [n \in Nodes |-> "none"]

ConnectNext ==
    \E n \in Nodes :
        \/ ConnectBegin(n)
        \/ ConnectDial(n)
        \/ ConnectWrite(n)
        \/ ForgedUnicast(n)
        \/ UnicastReceive(n)

SpecConnect == ConnectInit /\ [][ConnectNext]_vars


\* SpecStop: the engines, their callers of Stop and of ConnectToPeer
StopInit ==
    /\ InitMap
    /\ InitEngine
    /\ Distinct
    /\ Routed

StopNext ==
    \E n \in Nodes :
        \/ Start(n)
        \/ AdvTick(n)
        \/ AdvExit(n)
        \/ AdvScan(n)
        \/ McastReceive(n)
        \/ McastReadError(n)
        \/ UnicastReceive(n)
        \/ UnicastReadError(n)
        \/ StopCall(n)
        \/ ConnectBegin(n)
        \/ ConnectDial(n)
        \/ ConnectWrite(n)
        \/ \E c \in Callers :
            \/ StopEnter(n, c)
            \/ StopStore(n, c)
            \/ StopCheck(n, c)
            \/ StopCancel(n, c)
            \/ StopClose(n, c)
            \/ StopWait(n, c)
            \/ StopConns(n, c)

SpecStop == StopInit /\ [][StopNext]_vars

\* FairExpiry: SpecExpiry on hosts where interface detection succeeds, with
\* the sweep not stalling once the advertiser is in it
FairInit ==
    /\ ExpiryInit
    /\ Routed

FairExpiry ==
    /\ FairInit
    /\ [][ExpiryNext]_vars
    /\ \A n \in Nodes : WF_vars(AdvScan(n)) /\ WF_vars(AdvDelete(n))

\* SpecCancel: two engines with distinct identities whose owner cancels the
\* context it passed to Start; nobody calls Stop, so the sockets stay open
CancelInit ==
    /\ InitMap
    /\ InitEngine
    /\ Distinct
    /\ Routed

CancelNext ==
    \E n \in Nodes :
        \/ Start(n)
        \/ CancelCtx(n)
        \/ AdvTick(n)
        \/ AdvExit(n)
        \/ AdvScan(n)
        \/ McastReceive(n)

SpecCancel == CancelInit /\ [][CancelNext]_vars

\* FairCancel: SpecCancel in which every loop takes the steps it can take:
\* the advertiser's select and sweep, and the read of a delivered datagram
FairCancel ==
    /\ CancelInit
    /\ [][CancelNext]_vars
    /\ \A n \in Nodes :
          /\ WF_vars(AdvExit(n))
          /\ WF_vars(AdvScan(n))
          /\ WF_vars(McastReceive(n))

(***************************************************************************)
(* Properties                                                              *)
(***************************************************************************)
\* the Peer a beacon makes its receiver build: the source IP of the datagram
\* and the name and key it declares
FromPeer(d) ==
    [IP |-> d.srcIP, Name |-> MCastMessageDecode(d.buf).name,
     PublicKey |-> MCastMessageDecode(d.buf).pubKey]

\* d is a beacon that n's receiver takes for one of its own identity: it is
\* not dropped as n's own packet, it decodes, and its Peer equals n's
Collides(n, d) ==
    /\ ~OwnPacket(n, d)
    /\ ~MCastMessageDecode(d.buf).err
    /\ FromPeer(d) = Us(n)

\* ---- C1
\* C1: whatever Set, MultiSet, Delete and Clear calls the threads make, in
\* whatever order, the version equals the number of mutating calls made so far
\* (each adds exactly 1, a Delete without keys, a Delete of an absent key and a
\* MultiSet of an empty list included), the reads and the iteration leave it
\* alone, and the versions handed back by the mutating calls are pairwise
\* distinct.
VersionCountsMutations ==
    /\ Version(smap) = mutations
    /\ \A i, j \in DOMAIN returned : i # j => returned[i] # returned[j]
    /\ \A i \in DOMAIN returned : returned[i] \in 1..Version(smap)
    /\ last.type \in {"Set", "MultiSet", "Delete", "Clear"} => last.res = Version(smap)

\* three mutating calls were made and the last is a Delete without keys
EmptyDeleteCounted ==
    /\ mutations >= 3
    /\ last.type = "Delete"
    /\ last.n = 0
    /\ Len(returned) >= 2

\* ---- C2
\* C2 (as the code has it): when the multicast receiver of n reads a beacon
\* whose Peer equals n's own, n stops itself if its own epoch is greater than or
\* equal to the beacon's, and only warns and goes on reading if its own epoch
\* is strictly lower than the beacon's.
HigherOrEqualEpochStops ==
    [][\A n \in Nodes : \A d \in net \ net' :
          (d.dst = n /\ Collides(n, d)) =>
              IF epoch[n] >= MCastMessageDecode(d.buf).epoch
              THEN /\ mrPC'[n] = "stop"
                   /\ stopPC'[n]["mr"] = "enter"
              ELSE /\ mrPC'[n] \in {"read", "exited"}
                   /\ stopPC'[n] = stopPC[n]
                   /\ epoch'[n] = epoch[n]
                   /\ sockets'[n] = sockets[n]]_vars

\* C2 as stated: the node with the lower or equal epoch stops itself, the node
\* with the strictly higher epoch warns and continues.
LowerOrEqualEpochStops ==
    [][\A n \in Nodes : \A d \in net \ net' :
          (d.dst = n /\ Collides(n, d)) =>
              IF epoch[n] <= MCastMessageDecode(d.buf).epoch
              THEN /\ mrPC'[n] = "stop"
                   /\ stopPC'[n]["mr"] = "enter"
              ELSE /\ mrPC'[n] \in {"read", "exited"}
                   /\ stopPC'[n] = stopPC[n]
                   /\ epoch'[n] = epoch[n]
                   /\ sockets'[n] = sockets[n]]_vars

\* n1, at epoch 2, has read a beacon of its duplicate, which never got past
\* epoch 1, and is about to stop itself
HigherEpochNodeStopping ==
    /\ mrPC["n1"] = "stop"
    /\ stopPC["n1"]["mr"] = "enter"
    /\ epoch["n1"] = 2
    /\ epoch["n2"] = 1

\* ---- C3
\* C3: of two running engines with the same identity that exchange beacons,
\* exactly one stops itself; here: they never both stop themselves.
NeverBothStop == ~(mrPC["n1"] = "stop" /\ mrPC["n2"] = "stop")

\* ---- C4
\* C4: in every reachable state and every configuration the engine can start
\* in, the node's own Peer (its name, its IP, its public key) is not a key of
\* its own Peers registry.
SelfNeverRegistered == \A n \in Nodes : cfg[n] \notin DOMAIN Peers[n].m

\* ---- C5
\* C5: with N engines of distinct identities on one group, a registry that
\* holds the entries of all the other engines holds exactly those N-1 entries.
ExactlyTheOthers ==
    \A n \in Nodes :
        (\A m \in Nodes \ {n} : cfg[m] \in DOMAIN Peers[n].m) =>
            Cardinality(DOMAIN Peers[n].m) = Cardinality(Nodes) - 1

\* ---- C6
\* C6: a sweep that runs more than PeerTimeout after the last beacon of a peer
\* was received removes that peer's entry, and if the peer sends nothing more
\* the entry is eventually gone; an entry appears, and its LastSeen changes,
\* only when a beacon of that very peer is read, and LastSeen is then the time
\* of the read.
SilentPeerExpires ==
    /\ [][\A n \in Nodes :
            /\ (advPC[n] = "cleanup" /\ advPC'[n] # "cleanup") =>
                  \A p \in DOMAIN Peers[n].m :
                      now - Peers[n].m[p].LastSeen > PeerTimeout =>
                          /\ advPC'[n] = "delete"
                          /\ p \in toDelete'[n].keys
            /\ (advPC[n] = "delete" /\ advPC'[n] # "delete") =>
                  \A p \in toDelete[n].keys : p \notin DOMAIN Peers'[n].m
            /\ \A p \in DOMAIN Peers'[n].m :
                  (p \notin DOMAIN Peers[n].m \/ Peers'[n].m[p] # Peers[n].m[p]) =>
                      /\ \E d \in net \ net' : d.dst = n /\ FromPeer(d) = p
                      /\ Peers'[n].m[p].LastSeen = now]_vars
    /\ \A n \in Nodes : \A p \in {HostA, HostB} :
          (/\ advPC[n] = "cleanup"
           /\ p \in DOMAIN Peers[n].m
           /\ now - Peers[n].m[p].LastSeen > PeerTimeout)
              ~> (\/ p \notin DOMAIN Peers[n].m
                  \/ now - Peers[n].m[p].LastSeen <= PeerTimeout)

\* n1 discovered n2, n2's beacons stopped coming and a sweep removed the entry
SilentPeerRemoved ==
    /\ onChange["n1"].calls >= 1
    /\ HostB \notin DOMAIN Peers["n1"].m
    /\ Peers["n1"].version > onChange["n1"].calls
    /\ advPC["n1"] = "select"

\* ---- C7
\* C7: the advertiser sweeps after each send, also after a failed one; the
\* sweep collects exactly the entries whose LastSeen is older than PeerTimeout
\* at its scan, removes exactly those with one Delete that bumps the version
\* once, and changes nothing when it collects none.
SweepRemovesExactlyExpired ==
    [][\A n \in Nodes :
          /\ (advPC[n] = "select" /\ advPC'[n] # "select" /\ epoch'[n] >= 0) =>
                advPC'[n] = "cleanup"
          /\ (advPC[n] = "cleanup" /\ advPC'[n] # "cleanup") =>
                /\ Peers'[n] = Peers[n]
                /\ toDelete'[n].keys =
                      {p \in DOMAIN Peers[n].m : now - Peers[n].m[p].LastSeen > PeerTimeout}
                /\ advPC'[n] = IF toDelete'[n].keys = {} THEN "select" ELSE "delete"
          /\ (advPC[n] = "delete" /\ advPC'[n] # "delete") =>
                /\ toDelete[n].keys # {}
                /\ DOMAIN Peers'[n].m = DOMAIN Peers[n].m \ toDelete[n].keys
                /\ \A p \in DOMAIN Peers'[n].m : Peers'[n].m[p] = Peers[n].m[p]
                /\ Version(Peers'[n]) = Version(Peers[n]) + 1
                /\ advPC'[n] = "select"]_vars

\* one sweep of n1 removed two entries at once: two Sets and one Delete made
\* the version 3
BatchOfTwoRemoved ==
    /\ onChange["n1"].calls = 2
    /\ Version(Peers["n1"]) = 3
    /\ Peers["n1"].m = EmptyMap
    /\ advPC["n1"] = "select"

\* ---- C8
\* C8: OnChange is invoked every time the Peers set changes: each step that
\* changes a Peers registry (insert, update, removal by the sweep) also calls
\* OnChange, with the registry's new version.
EveryChangeNotified ==
    [][\A n \in Nodes :
          Peers'[n] # Peers[n] =>
              /\ onChange'[n].calls = onChange[n].calls + 1
              /\ onChange'[n].version = Version(Peers'[n])]_vars

\* ---- C9
\* C9: a call of Stop that finds the engine stopped (its epoch negative) returns
\* at once and changes neither the epoch, the cancel function, the context, the
\* sockets, the wait group nor any transport; a call of Stop on an engine that
\* was never started returns at the check of the cancel function and leaves
\* the sockets as they were.
StopIsIdempotent ==
    [][\A n \in Nodes : \A c \in Callers :
          /\ (stopPC[n][c] = "enter" /\ stopPC'[n][c] # "enter" /\ epoch[n] < 0) =>
                /\ stopPC'[n][c] = "idle"
                /\ lastStop'[n][c] = "stopped"
                /\ epoch'[n] = epoch[n]
                /\ cancel'[n] = cancel[n]
                /\ ctxDone'[n] = ctxDone[n]
                /\ sockets'[n] = sockets[n]
                /\ (c = "ext" => wg'[n] = wg[n])
                /\ transports' = transports
          /\ (stopPC[n][c] # "idle" /\ stopPC'[n][c] # stopPC[n][c] /\ ~Started(n)) =>
                /\ sockets'[n] = sockets[n]
                /\ sockets[n] = [mcast |-> "none", dual |-> "none"]
                /\ ctxDone'[n] = ctxDone[n]
                /\ stopPC[n][c] = "check" => stopPC'[n][c] = "idle"]_vars

\* the application has called Stop twice on its started engine and the second
\* call found it stopped
SecondStopReturned ==
    /\ stopCalls = 2
    /\ Started("n1")
    /\ stopPC["n1"]["ext"] = "idle"
    /\ lastStop["n1"]["ext"] = "stopped"
    /\ sockets["n1"].dual = "closed"

\* ---- C10
\* C10: when a call of Stop made by the application on a running engine
\* returns, the advertiser and both receivers have exited and every transport
\* held by the Connections registry is closed.
StopReturnsAfterLoops ==
    [][\A n \in Nodes :
          (/\ stopPC[n]["ext"] \in {"check", "conns"}
           /\ stopPC'[n]["ext"] = "idle"
           /\ Started(n)) =>
              /\ advPC'[n] = "exited"
              /\ mrPC'[n] = "exited"
              /\ urPC'[n] = "exited"
              /\ wg'[n] = 0
              /\ \A i \in Held(connections'[n]) : transports'[i].state = "closed"]_vars

\* ---- C11
\* C11: once the context passed to Start is cancelled, the advertiser, the
\* multicast receiver and the unicast receiver of that engine all eventually
\* exit, a receiver parked in a socket read with no datagram coming included.
CancelReachesAllLoops ==
    \A n \in Nodes :
        (Started(n) /\ ctxDone[n]) ~>
            (advPC[n] = "exited" /\ mrPC[n] = "exited" /\ urPC[n] = "exited")

\* ---- C12
\* the state a successful ConnectToPeer(P) of node n leaves: one entry for P,
\* ConnSent, holding an open transport to P's IP and the port of P's
\* PeerData, and the connect request (requester n's name, target P.Name) sent
\* to that address
ConnSentTo(n, P, conns, prs, ts, sent) ==
    /\ Has(conns[n], P)
    /\ Cardinality({q \in DOMAIN conns[n].m : q = P}) = 1
    /\ Get(conns[n], P).value.Peer = P
    /\ Get(conns[n], P).value.Status = "ConnSent"
    /\ Get(conns[n], P).value.Conn # NoConn
    /\ Get(prs[n], P).ok
    /\ LET t == ts[Get(conns[n], P).value.Conn]
       IN /\ t.state = "open"
          /\ t.owner = n
          /\ t.peer.IP = P.IP
          /\ t.port = Get(prs[n], P).value.Port
          /\ Cardinality({d \in sent : /\ d.via = Get(conns[n], P).value.Conn
                                       /\ d.dstIP = t.peer.IP
                                       /\ d.dstPort = t.port
                                       /\ Len(d.buf) = 3
                                       /\ d.buf[1] = "connect1"
                                       /\ d.buf[2] = cfg[n].Name
                                       /\ d.buf[3] = P.Name}) = 1

\* C12: when ConnectToPeer(P) returns nil for a discovered peer P, the
\* Connections registry holds exactly one entry for P, with status ConnSent
\* and an open transport to P's IP and the port of P's current PeerData, and
\* one connect request naming the local node and P.Name was written to it.
ConnectSuccessLeavesConnSent ==
    [][\A n \in Nodes :
          (/\ connPC[n].pc = "write"
           /\ connPC'[n].pc = "idle"
           /\ lastConnect'[n] = "ok") =>
              ConnSentTo(n, connPC[n].peer, connections', Peers', transports',
                         unet' \ unet)]_vars

\* a call to ConnectToPeer(B) has returned nil and its entry is in the registry
ConnectReturnedOk ==
    /\ lastConnect["n1"] = "ok"
    /\ connPC["n1"].pc = "idle"
    /\ Has(connections["n1"], HostB)
    /\ Get(connections["n1"], HostB).value.Status = "ConnSent"
    /\ transports[Get(connections["n1"], HostB).value.Conn].state = "open"

\* ---- C13
\* C13: no entry of any Connections registry ever has status Connected,
\* whatever ConnectToPeer calls are made and whatever unicast or multicast
\* messages are received.
NeverConnected ==
    \A n \in Nodes : \A p \in DOMAIN connections[n].m :
        connections[n].m[p].Status # "Connected"

\* the connect request reached its target, which accepted it as addressed to
\* itself, and the requester's entry is still ConnSent
RequestReceivedStillConnSent ==
    /\ direct["n2"] = "request"
    /\ Has(connections["n1"], HostB)
    /\ Get(connections["n1"], HostB).value.Status = "ConnSent"

\* ---- C14
\* C14: when ConnectToPeer returns a socket error, from opening the unicast
\* transport or from writing the request, the registry no longer holds an
\* entry for that peer.
SocketErrorDeletesEntry ==
    [][\A n \in Nodes :
          (/\ connPC[n].pc \in {"dial", "write"}
           /\ connPC'[n].pc = "idle"
           /\ lastConnect'[n] \in {"dialerr", "writeerr"}) =>
              ~Has(connections'[n], connPC[n].peer)]_vars

\* ---- C15
\* thread t called a mutating method from the body of its own All, Keys or
\* Values loop and has not returned from it
BlockedInOwnTraversal(t) ==
    /\ iter[t].pc = "lock"
    /\ iter[t].how = "run"
    /\ iter[t].form \in LockedForms

\* C15: a thread that calls Set, MultiSet, Delete or Clear from inside the body
\* of an All, Keys or Values loop over the same Map never returns from the
\* call, and the Map is not changed under the traversal.
MutationInsideTraversalDeadlocks ==
    [][\A t \in Threads :
          BlockedInOwnTraversal(t) =>
              /\ BlockedInOwnTraversal(t)'
              /\ iter'[t] = iter[t]
              /\ smap' = smap]_vars

\* a Delete called from the body of an All loop, after one element
DeleteUnderAllWaits ==
    /\ BlockedInOwnTraversal("t1")
    /\ iter["t1"].form = "All"
    /\ iter["t1"].op = "Delete"
    /\ Len(visited["t1"]) = 1

\* ---- C16
\* C16: when the consumer of any of the six iteration forms stops after K
\* elements, nothing more is yielded and the traversal holds no lock, so that
\* every writer that waits can go on once no other traversal holds the lock.
EarlyStopReleasesLock ==
    [][\A t \in Threads :
          /\ (iter[t].pc = "body" /\ iter'[t].pc = "idle") =>
                /\ visited'[t] = visited[t]
                /\ t \notin rlocked'
                /\ (rlocked' \ {t} = {}) => \A u \in lockWait' : CanLock(u)'
          /\ (iter[t].pc = "idle" /\ iter'[t].pc = "idle") =>
                visited'[t] = visited[t]]_vars

\* an All loop over two or more entries stopped after the first, and a Set of
\* the other thread completed afterwards
SetAfterEarlyStop ==
    /\ iter["t1"].form = "All"
    /\ iter["t1"].how = "break"
    /\ Len(visited["t1"]) = 1
    /\ MapLen(smap) >= 2
    /\ Version(smap) = iter["t1"].version + 1
    /\ last.thread = "t2"
    /\ last.type = "Set"

\* ---- C17
\* C17: AllSorted and NaturalSort yield a key only if the Map holds it when
\* its value is looked up: a key deleted after the snapshot and before its
\* lookup is not yielded, and the keys after it still are.
SortedSkipsDeleted ==
    [][\A t \in Threads :
          (/\ iter[t].form \in {"AllSorted", "NaturalSort"}
           /\ iter[t].pc = "next"
           /\ iter[t].i <= Len(iter[t].keys)) =>
              LET k == iter[t].keys[iter[t].i]
              IN  IF Has(smap, k)
                  THEN (iter'[t] # iter[t]) =>
                           visited'[t] = Append(visited[t], [Key |-> k, Value |-> smap.m[k]])
                  ELSE visited'[t] = visited[t]]_vars

\* the keys a, b, c were snapshotted, b was deleted after a was visited, and
\* the loop went on to c without visiting b
DeletedKeySkipped ==
    /\ iter["t1"].form = "NaturalSort"
    /\ iter["t1"].keys = <<"a", "b", "c">>
    /\ iter["t1"].pc = "body"
    /\ [j \in 1..Len(visited["t1"]) |-> visited["t1"][j].Key] = <<"a", "c">>
    /\ ~Has(smap, "b")

\* ---- C18
\* C18: KeysSorted does not yield a key that was deleted between the key
\* snapshot and that key's turn.
KeysSortedSkipsDeleted ==
    [][\A t \in Threads :
          (/\ iter[t].form = "KeysSorted"
           /\ iter[t].pc = "next"
           /\ iter[t].i <= Len(iter[t].keys)
           /\ ~Has(smap, iter[t].keys[iter[t].i])) =>
              visited'[t] = visited[t]]_vars

\* ---- C19
\* a plain sequential map, as the set of its <<key, value>> pairs
RefOf(m) == {<<k, m[k]>> : k \in DOMAIN m}

\* r[k] = v
RefSet(r, k, v) == {p \in r : p[1] # k} \cup {<<k, v>>}

\* r[kv.Key] = kv.Value for each kv of kvs, in order
RECURSIVE RefSetAll(_, _)
RefSetAll(r, kvs) ==
    IF kvs = <<>> THEN r
    ELSE RefSetAll(RefSet(r, Head(kvs).Key, Head(kvs).Value), Tail(kvs))

\* delete(r, k) for each k of ks
RefDelete(r, ks) == {p \in r : \A i \in 1..Len(ks) : ks[i] # p[1]}

\* the sequential map after the call type(args)
RefStep(r, type, args) ==
    CASE type = "Set" -> RefSet(r, args[1].Key, args[1].Value)
      [] type = "MultiSet" -> RefSetAll(r, args)
      [] type = "Delete" -> RefDelete(r, args)
      [] type = "Clear" -> {}

\* v, ok := r[k]
RefGet(r, k) ==
    IF \E p \in r : p[1] = k
    THEN [value |-> (CHOOSE p \in r : p[1] = k)[2], ok |-> TRUE]
    ELSE [value |-> 0, ok |-> FALSE]

\* C19: each Set, MultiSet, Delete and Clear changes the entries of the Map as
\* the same call changes a plain sequential map, and Get, Has and Len return
\* what that map returns: the last value set, not found after Delete or Clear,
\* the number of distinct keys; MultiSet is its Sets in order and Delete of an
\* absent key changes no entry.
RefinesSequentialMap ==
    [][calls' = calls + 1 =>
          LET r == RefOf(smap.m)
          IN  /\ last'.type \in {"Set", "MultiSet", "Delete", "Clear"} =>
                    RefOf(smap'.m) = RefStep(r, last'.type, last'.args)
              /\ last'.type = "Get" =>
                    /\ last'.res[2] = RefGet(r, last'.res[1])
                    /\ smap' = smap
              /\ last'.type = "Has" =>
                    /\ last'.res[2] = RefGet(r, last'.res[1]).ok
                    /\ smap' = smap
              /\ last'.type = "Len" =>
                    /\ last'.res = Cardinality({p[1] : p \in r})
                    /\ smap' = smap]_vars

\* a MultiSet was given key a twice, with values 1 and then 2, and a is 2
MultiSetLastWins ==
    /\ last.type = "MultiSet"
    /\ last.args = <<[Key |-> "a", Value |-> 1], [Key |-> "a", Value |-> 2]>>
    /\ Get(smap, "a") = [value |-> 2, ok |-> TRUE]
    /\ MapLen(smap) = 2

\* ---- C20
\* the epoch of a beacon and the engine that sent it
BeaconEpoch(d) == MCastMessageDecode(d.buf).epoch
SentBy(d, n) == d.srcIP = cfg[n].IP /\ d.srcPort = SendPort[n]

\* C20: every beacon an advertiser sends carries an epoch larger than those of
\* the beacons it sent before, and the tick that takes the 32-bit counter past
\* its largest value aborts the process without sending a beacon.
EpochNeverWraps ==
    [][\A n \in Nodes :
          /\ \A d \in net' \ net : SentBy(d, n) =>
                \A d0 \in net : SentBy(d0, n) => BeaconEpoch(d0) < BeaconEpoch(d)
          /\ (epoch[n] = MaxInt32 /\ advPC[n] = "select" /\ epoch'[n] # epoch[n]
                  /\ epoch'[n] # epochStopMarker) =>
                /\ crashed'[n]
                /\ net' = net]_vars

\* an advertiser sent the beacon of the largest epoch and aborted at the
\* next tick
AbortedAtWrap ==
    \E n \in Nodes :
        /\ crashed[n]
        /\ epoch[n] = MinInt32
        /\ \E d \in net : SentBy(d, n) /\ BeaconEpoch(d) = MaxInt32

\* ---- C21
\* C21: a beacon of a known peer whose epoch is not above the stored one
\* changes nothing: whenever the PeerData of a known peer changes, its epoch
\* has grown, so the stored epoch never decreases and an old beacon does not
\* refresh LastSeen.
StaleBeaconIgnored ==
    [][\A n \in Nodes : \A p \in DOMAIN Peers[n].m :
          (Has(Peers'[n], p) /\ Peers'[n].m[p] # Peers[n].m[p]) =>
              Peers'[n].m[p].Epoch > Peers[n].m[p].Epoch]_vars

\* ---- C22
\* a beacon made by the engine that holds the key the beacon declares
Genuine(d) ==
    \E n \in Nodes : SentBy(d, n) /\ MCastMessageDecode(d.buf).pubKey = cfg[n].PublicKey

\* C22: the multicast receiver inserts or updates a Peer only for a beacon
\* that verifies against the public key it declares: a beacon whose sender
\* does not hold the declared key changes nothing in the Peers registry.
OnlyVerifiedBeaconsRegister ==
    [][\A n \in Nodes : \A d \in net \ net' :
          (d.dst = n /\ ~Genuine(d)) => Peers'[n] = Peers[n]]_vars

\* C23: a signed string verified with the signer's public key gives back the
\* message that was signed, and no error; verified with the public key of
\* another identity it gives a signature error and no message
SignVerifyRoundTrip ==
    (crypto.stage = "verified" /\ crypto.given = crypto.signed) =>
        IF crypto.pubKey = crypto.id.PublicKey
        THEN crypto.result = [err |-> "nil", message |-> crypto.message]
        ELSE crypto.result = SignatureInvalid

\* a message of some length came back from the signer's key
VerifiedOwnMessage ==
    /\ crypto.stage = "verified"
    /\ crypto.given = crypto.signed
    /\ crypto.pubKey = crypto.id.PublicKey
    /\ crypto.message # <<>>
    /\ crypto.result.err = "nil"
    /\ crypto.result.message = crypto.message

\* C24: a signed string that differs from the one SignMessage made, by one
\* character or more, and with it every envelope that lost its separator or
\* its tag or is no encoding, gives a signature error and no message
ChangedStringNeverVerifies ==
    (crypto.stage = "verified" /\ crypto.given # crypto.signed) =>
        crypto.result = SignatureInvalid

\* the tag a decoder takes
TagOf(decoder) ==
    IF decoder = "IdentityFromPrivateKey" THEN PrivateKeyPrefix ELSE PublicKeyPrefix

Kept(hashed) == SelectSeq(hashed, LAMBDA v : v < Unbiased)

\* C26: whatever the digest of the data is, HumanHash returns 8 characters,
\* 3 digits, a hyphen and 4 digits, the same at every call; the digits are
\* v mod 10 of the first seven bytes v of the digest that are below 250, the
\* bytes 250..255 being left out, and the same number of byte values gives
\* each of the digits 0..9
HumanHashFormat ==
    /\ \A d \in 0..9 :
          Cardinality({v \in 0..255 : v < Unbiased /\ v % 10 = d})
              = Cardinality({v \in 0..255 : v < Unbiased /\ v % 10 = 0})
    /\ crypto.stage \in {"hashed", "again"} =>
          /\ ~crypto.result.panic
          /\ Len(crypto.result.str) = 8
          /\ crypto.result.str[4] = Hyphen
          /\ \A i \in {1, 2, 3, 5, 6, 7, 8} :
                crypto.result.str[i] \in Digit0..(Digit0 + 9)
          /\ \A i \in {1, 2, 3, 5, 6, 7} :
                crypto.result.str[i] = Digit0 + (Kept(crypto.hashed)[i] % 10)
          /\ crypto.result.str[8] = Digit0 + (Kept(crypto.hashed)[4] % 10)
    /\ crypto.stage = "again" => crypto.again = crypto.result

\* C28: the Stop that the multicast receiver calls from its own loop, having
\* found its node to be the losing duplicate, returns, and with it the
\* advertiser, the multicast receiver and the unicast receiver have exited and
\* the transports of the Connections are closed
SelfStopTerminates ==
    \A n \in Nodes :
        (stopPC[n]["mr"] # "idle") ~>
            /\ stopPC[n]["mr"] = "idle"
            /\ advPC[n] = "exited"
            /\ mrPC[n] = "exited"
            /\ urPC[n] = "exited"
            /\ \A i \in Held(connections[n]) : transports[i].state = "closed"

\* C27: the unicast receiver takes a connect request only if the target it
\* declares is the name of its node; a request for another name and a payload
\* that is no connect request are dropped; whatever the datagram, the Peers
\* and the Connections with their versions stay as they are and the loop goes
\* back to its read
UnicastRequestFiltered ==
    [][\A n \in Nodes : \A d \in unet \ unet' :
          (d.dstIP = cfg[n].IP /\ d.dstPort = SendPort[n]) =>
              /\ direct'[n] = "request" <=>
                    \E requester \in {"A", "B", "X"} :
                        d.buf = ConnectMessage(requester, cfg[n].Name)
              /\ direct'[n] \in {"request", "mismatch", "unknown"}
              /\ Peers' = Peers
              /\ connections' = connections
              /\ urPC'[n] = "read"]_vars

\* a request for another name has been dropped by B's receiver, which reads on
RequestForAnotherDropped ==
    /\ direct["n2"] = "mismatch"
    /\ urPC["n2"] = "read"
    /\ \A d \in unet : d.buf # ConnectMessage("X", "Z")

\* C29: the entry of a peer gets the status ConnSent only in a step that has
\* the connect request written through the entry's transport: ConnSent is not
\* there to be seen before the write, nor when the write fails
ConnSentOnlyAfterWrite ==
    [][\A n \in Nodes : \A p \in DOMAIN connections'[n].m :
          (/\ connections'[n].m[p].Status = "ConnSent"
           /\ ~(Has(connections[n], p) /\ connections[n].m[p] = connections'[n].m[p])) =>
              \E d \in unet' : d.via = connections'[n].m[p].Conn]_vars

\* C30: no transport that ConnectToPeer opened stays open once the entry that
\* held it has been replaced or deleted: every open transport is the one its
\* owner's Connections hold for its peer
OpenTransportsAreHeld ==
    \A i \in DOMAIN transports :
        transports[i].state = "open" =>
            /\ Has(connections[transports[i].owner], transports[i].peer)
            /\ connections[transports[i].owner].m[transports[i].peer].Conn = i

Received(n) == {d \in net \ net' : d.dst = n}

\* a datagram the receiver of n drops: sent from its own sending socket, not in
\* the discovery format, or carrying the identity of n itself
DroppedBy(n, d) ==
    \/ d.srcIP = ourSendAddr[n].IP /\ d.srcPort = ourSendAddr[n].Port
    \/ d.buf \in Garbled
    \/ /\ d.srcIP = cfg[n].IP
       /\ Len(d.buf) = 5
       /\ d.buf = DiscoveryMessage(cfg[n].Name, cfg[n].PublicKey, d.buf[5])

\* C32: for each beacon that inserts or updates a Peer the multicast receiver
\* invokes OnChange exactly once with the version returned by that Set; it does
\* not invoke OnChange for a dropped beacon (own source address, self-collision,
\* malformed), and the versions passed to OnChange are strictly increasing
OnChangeOncePerSet ==
    [][\A n \in Nodes :
          /\ \A d \in Received(n) :
                IF DroppedBy(n, d)
                THEN /\ onChange'[n] = onChange[n]
                     /\ Peers'[n] = Peers[n]
                ELSE /\ Version(Peers'[n]) = Version(Peers[n]) + 1
                     /\ onChange'[n].calls = onChange[n].calls + 1
                     /\ onChange'[n].version = Version(Peers'[n])
                     /\ onChange'[n].version > onChange[n].version
          /\ Received(n) = {} => onChange'[n] = onChange[n]]_vars

\* OnChange was called for an insert and for an update of the same Peer, and a
\* datagram in no format is on its way
InsertAndUpdateNotified ==
    \E n \in Nodes :
        /\ onChange[n] = [calls |-> 2, version |-> 2]
        /\ Cardinality(DOMAIN Peers[n].m) = 1
        /\ \E d \in net : d.dst = n /\ d.buf \in Garbled

\* the Peer a beacon announces: the source IP with the name and key it carries
Announced(d) == [IP |-> d.srcIP, Name |-> d.buf[2], PublicKey |-> d.buf[3]]

\* the fingerprint an entry of this Peer must carry
HashOf(p) ==
    IF DecodeBytes(PublicKeyPrefix, p.PublicKey).err THEN "BAD-PKEY"
    ELSE HumanHash(DecodeBytes(PublicKeyPrefix, p.PublicKey).bytes)

\* C33: a beacon from an already known Peer replaces its whole PeerData with
\* the previous HumanHash, the beacon's source port, the beacon's epoch and the
\* receive time and leaves the number of entries alone; in every reachable
\* state each entry's HumanHash is HumanHash of its Peer's decoded key, or
\* BAD-PKEY when the key string cannot be decoded, and such a Peer is inserted
KnownPeerReplaced ==
    /\ [](\A n \in Nodes : \A p \in DOMAIN Peers[n].m : Peers[n].m[p].HumanHash = HashOf(p))
    /\ [][\A n \in Nodes : \A d \in Received(n) : ~DroppedBy(n, d) =>
              /\ Announced(d) \in DOMAIN Peers'[n].m
              /\ \A q \in DOMAIN Peers[n].m \ {Announced(d)} :
                     q \in DOMAIN Peers'[n].m /\ Peers'[n].m[q] = Peers[n].m[q]
              /\ DOMAIN Peers'[n].m = DOMAIN Peers[n].m \cup {Announced(d)}
              /\ Announced(d) \in DOMAIN Peers[n].m =>
                     /\ Peers'[n].m[Announced(d)] =
                            [HumanHash |-> Peers[n].m[Announced(d)].HumanHash,
                             Port |-> d.srcPort, Epoch |-> d.buf[5], LastSeen |-> now]
                     /\ MapLen(Peers'[n]) = MapLen(Peers[n])]_vars

\* a known Peer was seen again later, with another epoch, and a Peer whose key
\* string cannot be decoded is registered beside it
RefreshedBesideBadKey ==
    \E n \in Nodes : \E p, q \in DOMAIN Peers[n].m :
        /\ Peers[n].m[p].LastSeen > 0
        /\ Peers[n].m[p].Epoch > 1
        /\ Peers[n].m[p].HumanHash = HumanHash(Bob.PublicKey)
        /\ Peers[n].m[q].HumanHash = "BAD-PKEY"

\* C34: a datagram that does not decode as a discovery beacon is dropped: the
\* Peers and Connections registries and their versions are unchanged, OnChange
\* is not invoked, the engine is not stopped, and the receiver goes on to read
\* the next datagram, a well-formed beacon being registered as ever
MalformedDropped ==
    [][\A n \in Nodes : \A d \in Received(n) :
          /\ d.buf \in Garbled =>
                /\ Peers' = Peers
                /\ connections' = connections
                /\ onChange' = onChange
                /\ epoch' = epoch /\ ~Stopped(n)'
                /\ cancel' = cancel /\ ctxDone' = ctxDone /\ sockets' = sockets
                /\ stopPC' = stopPC /\ crashed' = crashed
                /\ mrPC'[n] = "read"
                /\ net' = net \ {d}
          /\ ~DroppedBy(n, d) =>
                /\ Announced(d) \in DOMAIN Peers'[n].m
                /\ Peers'[n].m[Announced(d)].Epoch = d.buf[5]]_vars

\* engine n has taken the malformed datagram that is still on its way to the
\* other engine; it runs on with its registry, and a beacon is waiting for it
TookMalformedAndRunsOn ==
    \E n \in Nodes :
        /\ \E d \in net : d.buf \in Garbled /\ d.dst # n
        /\ \A d \in net : d.buf \in Garbled => d.dst # n
        /\ ~Stopped(n)
        /\ mrPC[n] = "read"
        /\ MapLen(Peers[n]) = 1
        /\ \E d \in net : d.dst = n /\ ~DroppedBy(n, d)

\* the elements of a sequence
Range(q) == {q[i] : i \in 1..Len(q)}

\* the keys of q follow one another in the order less
InOrder(q, less(_, _)) == \A i, j \in 1..Len(q) : i < j => less(q[i].Key, q[j].Key)

\* C35: KeysSorted, AllSorted and NaturalSort yield keys in strictly ascending
\* order of the comparison used, each key at most once, and only keys that were
\* in the Map when the key snapshot was taken, an entry added later not being
\* yielded; AllSorted and NaturalSort pair each key with the value the Map holds
\* at that key's lookup
SortedYieldsSnapshotInOrder ==
    /\ [](\A t \in Threads : iter[t].form \in SortedForms =>
             /\ \/ InOrder(visited[t], Ascending)
                \/ iter[t].form # "NaturalSort" /\ InOrder(visited[t], Descending)
             /\ \A i, j \in 1..Len(visited[t]) :
                    i # j => visited[t][i].Key # visited[t][j].Key)
    /\ [][\A t \in Threads :
              /\ (iter[t].pc = "idle" /\ iter'[t].pc = "next"
                     /\ iter'[t].form \in SortedForms) =>
                    /\ Range(iter'[t].keys) = DOMAIN smap.m
                    /\ Len(iter'[t].keys) = Cardinality(DOMAIN smap.m)
                    /\ visited'[t] = <<>>
              /\ (iter[t].form \in SortedForms /\ iter[t].pc # "idle"
                     /\ iter'[t].pc # "idle") =>
                    iter'[t].keys = iter[t].keys
              /\ (iter[t].form \in SortedForms /\ visited'[t] # visited[t]
                     /\ iter[t].pc # "idle") =>
                    /\ Len(visited'[t]) = Len(visited[t]) + 1
                    /\ SubSeq(visited'[t], 1, Len(visited[t])) = visited[t]
                    /\ visited'[t][Len(visited'[t])].Key \in Range(iter[t].keys)
                    /\ iter[t].form \in {"AllSorted", "NaturalSort"} =>
                          /\ Has(smap, visited'[t][Len(visited'[t])].Key)
                          /\ visited'[t][Len(visited'[t])].Value =
                                 smap.m[visited'[t][Len(visited'[t])].Key]]_vars

\* an AllSorted loop ran to its end over two keys or more, yielded a value
\* stored after the snapshot, and the Map holds a key the loop did not yield
LateValueYieldedLateKeyNot ==
    \E t \in Iterators :
        /\ iter[t].form = "AllSorted"
        /\ iter[t].pc = "idle"
        /\ iter[t].how = "end"
        /\ Len(visited[t]) >= 2
        /\ \E i \in 1..Len(visited[t]) : visited[t][i].Value = 2
        /\ \E k \in DOMAIN smap.m : \A i \in 1..Len(visited[t]) : visited[t][i].Key # k

\* thread t is in the body of its own KeysSorted, AllSorted or NaturalSort loop,
\* or in a mutating call made from that body
InOwnSortedLoop(t) ==
    /\ iter[t].form \in SortedForms
    /\ iter[t].how = "run"
    /\ iter[t].pc \in {"body", "lock"}

\* C36: a Set or Delete called on the same Map from inside the body of a
\* KeysSorted, AllSorted or NaturalSort loop completes without blocking, the
\* loop holding no lock while its consumer runs
MutationInsideSortedLoopCompletes ==
    /\ [](\A t \in Threads : InOwnSortedLoop(t) =>
             /\ t \notin rlocked
             /\ (iter[t].pc = "lock" /\ rlocked \ {t} = {}) => CanLock(t))
    /\ [][\A t \in Threads :
              (InOwnSortedLoop(t) /\ iter[t].pc = "lock" /\ iter'[t] # iter[t]) =>
                  /\ iter'[t].pc = "body"
                  /\ iter'[t].keys = iter[t].keys
                  /\ mutations' = mutations + 1
                  /\ Version(smap') = Version(smap) + 1
                  /\ t \notin lockWait']_vars

\* a Delete called from the body of an AllSorted loop after one element has
\* returned, and the loop is in its body again
DeleteInSortedLoopReturned ==
    \E t \in Iterators :
        /\ InOwnSortedLoop(t)
        /\ iter[t].form = "AllSorted"
        /\ iter[t].pc = "body"
        /\ Len(visited[t]) = 1
        /\ last.thread = t
        /\ last.type = "Delete"
        /\ Version(smap) > iter[t].version

\* C37: during Stop the cancellation signal is raised before either socket is
\* closed, so a receive loop whose blocked read fails because of the shutdown
\* finds the context cancelled, takes the error for a normal exit and exits
\* without reading again from the closed socket
CancelPrecedesClose ==
    /\ [](\A n \in Nodes :
             (sockets[n].mcast = "closed" \/ sockets[n].dual = "closed") => ctxDone[n])
    /\ [][\A n \in Nodes :
              /\ sockets'[n] # sockets[n] /\ sockets[n].mcast = "open" =>
                    ctxDone[n] \/ sockets'[n] = [mcast |-> "open", dual |-> "open"]
              /\ (mrPC[n] = "read" /\ sockets[n].mcast = "closed"
                     /\ mrPC'[n] # mrPC[n]) =>
                    /\ mrPC'[n] = "exited"
                    /\ wg'[n] = wg[n] - 1
              /\ (urPC[n] = "read" /\ sockets[n].dual = "closed"
                     /\ urPC'[n] # urPC[n]) =>
                    /\ urPC'[n] = "exited"
                    /\ wg'[n] = wg[n] - 1
              /\ mrPC[n] = "exited" => mrPC'[n] = "exited"
              /\ urPC[n] = "exited" => urPC'[n] = "exited"]_vars

\* a Stop has cancelled and closed and waits; the multicast receiver left its
\* loop, the read of the unicast receiver is about to fail
ReadFailsAfterStopClosed ==
    \E n \in Nodes :
        /\ stopPC[n]["ext"] = "wait"
        /\ sockets[n] = [mcast |-> "closed", dual |-> "closed"]
        /\ ctxDone[n]
        /\ mrPC[n] = "exited"
        /\ urPC[n] = "read"

\* C38: the expiry sweep never removes a Peer whose current PeerData has a
\* LastSeen within PeerTimeout: an entry the multicast receiver refreshes
\* between the sweep's scan and its batch Delete is kept
SweepKeepsRefreshedPeer ==
    [][\A n \in Nodes : \A p \in DOMAIN Peers[n].m :
          p \notin DOMAIN Peers'[n].m => now - Peers[n].m[p].LastSeen > PeerTimeout]_vars

\* C40: ConnectToPeer for a Peer that has no entry in the Peers registry returns
\* an error and leaves the Connections registry as it was before the call: no
\* entry with status Connecting is left behind and no transport is opened
UnknownPeerLeavesNoEntry ==
    [][\A n \in Apps :
          (/\ connCalls' = connCalls + 1
           /\ connPC[n].pc = "idle"
           /\ connPC'[n].pc = "idle") =>
              /\ lastConnect'[n] = "notfound"
              /\ connections'[n] = connections[n]
              /\ transports' = transports]_vars

\* C39: OnChange is invoked by the multicast receiver after the registry Set
\* has returned and with no lock of the Peers registry held, so a callback
\* that calls any operation of the registry (Get, Len, Version, AllSorted, Set,
\* Delete) completes, whatever the sweep or other callers do meanwhile
CallbackCompletes ==
    /\ [](iter[Receiver].pc \in {"change", "callback", "lookup"} =>
             Receiver \notin rlocked)
    /\ [](iter[Receiver].pc = "change" => Receiver \notin lockWait)
    /\ (iter[Receiver].pc = "change") ~>
           (iter[Receiver].form = "OnChange" /\ iter[Receiver].pc = "idle")

\* the callback's Set has returned; the other goroutine ran an All traversal
\* and changed the Map after the receiver's Set
CallbackSetReturned ==
    /\ iter[Receiver].form = "OnChange"
    /\ iter[Receiver].pc = "idle"
    /\ iter[Receiver].op = "Set"
    /\ iter["t1"].form = "All"
    /\ Version(smap) = iter[Receiver].version + 2
====
